---------------------------- MODULE Spec2Model ----------------------------
(***************************************************************************)
(* Move-inference pipeline of chessboard-vision:                           *)
(*   - GameState (game_state.py): occupancy reconciler over a chess board  *)
(*   - NoiseHandler (noise_handler.py): noise / stability state machine    *)
(*   - GameSession / LichessSession (game_session.py, lichess_session.py)  *)
(*     and the stand-alone loop of play_lichess.py: frame loop and the     *)
(*     remote listener sharing the canonical board, the smart scan of      *)
(*     on_frame, and the listener with the stop signal.                    *)
(*   - ChangeDetector (change_detector.py), detect_move (move_detector.py) *)
(*     and StableMoveDetector (stable_move_detector.py), each on its own.  *)
(* The rules authority (python-chess Board) is modelled by its rules:      *)
(* piece movement, check, castling, en passant, promotion.                 *)
(***************************************************************************)
EXTENDS Integers, Sequences, FiniteSets, TLC

(***************************************************************************)
(* Bounds of the model.                                                    *)
(***************************************************************************)
\* moves committed on top of a loaded position in the GameState machine
MaxPly == 1

\* squares the vision reports wrongly in one snapshot
MaxToggle == 4

\* NoiseHandler.stable_count, which the code never caps while the same
\* squares stay changed
MaxStableCount == 14

(***************************************************************************)
(* Squares and pieces (chess.square, chess.square_file, chess.square_rank, *)
(* chess.PAWN .. chess.KING, chess.WHITE / chess.BLACK).                   *)
(***************************************************************************)
SQUARES == 0..63

square(f, r) == r * 8 + f

square_file(sq) == sq % 8

square_rank(sq) == sq \div 8

\* the (file, rank) tuple the vision side uses for a square index
SquareTuple(sq) == <<square_file(sq), square_rank(sq)>>

PAWN == 1
KNIGHT == 2
BISHOP == 3
ROOK == 4
QUEEN == 5
KING == 6

WHITE == TRUE
BLACK == FALSE

\* a piece is a number: 0 for an empty square, the piece type for a white
\* piece, the piece type + 8 for a black piece
NoPiece == 0

Piece(color, ptype) == IF color THEN ptype ELSE ptype + 8

piece_type(p) == p % 8

piece_color(p) == p < 8

Abs(x) == IF x < 0 THEN -x ELSE x

Sign(x) == IF x < 0 THEN -1 ELSE IF x > 0 THEN 1 ELSE 0

Max(a, b) == IF a > b THEN a ELSE b

(***************************************************************************)
(* Moves: chess.Move(from_square, to_square, promotion); promotion 0 is    *)
(* Python's None.  None and False are the two non-move values the          *)
(* reconciler's helpers return.                                           *)
(***************************************************************************)
Move(from, to, promo) ==
    [from_square |-> from, to_square |-> to, promotion |-> promo]

None == Move(-1, -1, 0)

False == Move(-2, -2, 0)

IsMove(m) == m.from_square >= 0

(***************************************************************************)
(* Attacks on a board b (a function SQUARES -> piece).                     *)
(***************************************************************************)
\* every square strictly between s and t on their common line is empty
PathClear(b, s, t) ==
    LET df == square_file(t) - square_file(s)
        dr == square_rank(t) - square_rank(s)
        n  == Max(Abs(df), Abs(dr))
    IN  \A k \in 1..(n - 1) :
            b[square(square_file(s) + k * Sign(df),
                     square_rank(s) + k * Sign(dr))] = NoPiece

\* the piece standing on s attacks square t
Attacks(b, s, t) ==
    LET p  == b[s]
        df == square_file(t) - square_file(s)
        dr == square_rank(t) - square_rank(s)
        pt == piece_type(p)
    IN  /\ p # NoPiece
        /\ s # t
        /\ CASE pt = PAWN   -> /\ Abs(df) = 1
                               /\ dr = (IF piece_color(p) THEN 1 ELSE -1)
             [] pt = KNIGHT -> {Abs(df), Abs(dr)} = {1, 2}
             [] pt = BISHOP -> Abs(df) = Abs(dr) /\ PathClear(b, s, t)
             [] pt = ROOK   -> (df = 0 \/ dr = 0) /\ PathClear(b, s, t)
             [] pt = QUEEN  -> /\ (df = 0 \/ dr = 0 \/ Abs(df) = Abs(dr))
                               /\ PathClear(b, s, t)
             [] pt = KING   -> Abs(df) <= 1 /\ Abs(dr) <= 1
             [] OTHER       -> FALSE

\* some piece of colour c attacks square t
IsAttackedBy(b, c, t) ==
    \E s \in SQUARES :
        /\ b[s] # NoPiece
        /\ piece_color(b[s]) = c
        /\ Attacks(b, s, t)

KingSquare(b, c) == CHOOSE s \in SQUARES : b[s] = Piece(c, KING)

(***************************************************************************)
(* Board.push: the position after playing m.  A position is a record       *)
(* [pieces, turn, castling_rights, ep_square] ; castling_rights is the set *)
(* of rook squares that may still castle, ep_square is -1 for None.        *)
(***************************************************************************)
IsCastlingMove(b, m) ==
    /\ piece_type(b[m.from_square]) = KING
    /\ Abs(square_file(m.to_square) - square_file(m.from_square)) = 2

\* Board.is_en_passant
is_en_passant(pos, m) ==
    /\ pos.ep_square = m.to_square
    /\ piece_type(pos.pieces[m.from_square]) = PAWN
    /\ Abs(m.to_square - m.from_square) \in {7, 9}
    /\ pos.pieces[m.to_square] = NoPiece

\* Board.is_capture
is_capture(pos, m) ==
    \/ /\ pos.pieces[m.to_square] # NoPiece
       /\ piece_color(pos.pieces[m.to_square]) # pos.turn
    \/ is_en_passant(pos, m)

BackRank(c) == IF c THEN 0 ELSE 7

PiecesAfter(pos, m) ==
    LET b     == pos.pieces
        p     == b[m.from_square]
        c     == pos.turn
        rk    == square_rank(m.from_square)
        ep    == is_en_passant(pos, m)
        cas   == IsCastlingMove(b, m)
        ks    == square_file(m.to_square) = 6
        rfrom == square(IF ks THEN 7 ELSE 0, rk)
        rto   == square(IF ks THEN 5 ELSE 3, rk)
        victim == square(square_file(m.to_square), rk)
        placed == IF m.promotion # 0 THEN Piece(c, m.promotion) ELSE p
    IN  [s \in SQUARES |->
            IF s = m.from_square THEN NoPiece
            ELSE IF s = m.to_square THEN placed
            ELSE IF ep /\ s = victim THEN NoPiece
            ELSE IF cas /\ s = rfrom THEN NoPiece
            ELSE IF cas /\ s = rto THEN Piece(c, ROOK)
            ELSE b[s]]

PositionAfter(pos, m) ==
    LET b   == pos.pieces
        p   == b[m.from_square]
        c   == pos.turn
        d   == m.to_square - m.from_square
        rights1 == pos.castling_rights \ {m.from_square, m.to_square}
        rights2 == IF piece_type(p) = KING
                   THEN {r \in rights1 : square_rank(r) # BackRank(c)}
                   ELSE rights1
        ep  == IF piece_type(p) = PAWN /\ d = 16 /\ square_rank(m.from_square) = 1
               THEN m.from_square + 8
               ELSE IF piece_type(p) = PAWN /\ d = -16
                       /\ square_rank(m.from_square) = 6
               THEN m.from_square - 8
               ELSE -1
    IN  [pieces |-> PiecesAfter(pos, m),
         turn |-> ~c,
         castling_rights |-> rights2,
         ep_square |-> ep]

(***************************************************************************)
(* Board.legal_moves.                                                      *)
(***************************************************************************)
PromotionPieces == {QUEEN, ROOK, BISHOP, KNIGHT}

\* the promotions a move of piece p to square t carries: {0} unless a pawn
\* reaches the last rank
Promotions(p, t) ==
    IF piece_type(p) = PAWN /\ square_rank(t) = (IF piece_color(p) THEN 7 ELSE 0)
    THEN PromotionPieces
    ELSE {0}

PawnTargets(pos, s) ==
    LET b   == pos.pieces
        c   == pos.turn
        dir == IF c THEN 8 ELSE -8
        one == s + dir
        two == s + 2 * dir
        startRank == IF c THEN 1 ELSE 6
    IN  {t \in SQUARES :
            \/ t = one /\ b[one] = NoPiece
            \/ /\ t = two
               /\ square_rank(s) = startRank
               /\ b[one] = NoPiece
               /\ b[two] = NoPiece
            \/ /\ Attacks(b, s, t)
               /\ \/ b[t] # NoPiece /\ piece_color(b[t]) # c
                  \/ t = pos.ep_square /\ b[t] = NoPiece}

PieceTargets(pos, s) ==
    LET b == pos.pieces
    IN  {t \in SQUARES :
            /\ Attacks(b, s, t)
            /\ b[t] = NoPiece \/ piece_color(b[t]) # pos.turn}

\* castling moves of the side to move, as king moves of two files
CastlingMoves(pos) ==
    LET b  == pos.pieces
        c  == pos.turn
        rk == BackRank(c)
        k  == square(4, rk)
        free(fs) == \A f \in fs : b[square(f, rk)] = NoPiece
        safe(fs) == \A f \in fs : ~IsAttackedBy(b, ~c, square(f, rk))
    IN  IF b[k] # Piece(c, KING) THEN {}
        ELSE
          {Move(k, square(6, rk), 0) : x \in
              {y \in {1} : /\ square(7, rk) \in pos.castling_rights
                           /\ b[square(7, rk)] = Piece(c, ROOK)
                           /\ free({5, 6})
                           /\ safe({4, 5, 6})}}
          \cup
          {Move(k, square(2, rk), 0) : x \in
              {y \in {1} : /\ square(0, rk) \in pos.castling_rights
                           /\ b[square(0, rk)] = Piece(c, ROOK)
                           /\ free({1, 2, 3})
                           /\ safe({4, 3, 2})}}

PseudoLegalMoves(pos) ==
    LET b == pos.pieces
        own == {s \in SQUARES : b[s] # NoPiece /\ piece_color(b[s]) = pos.turn}
    IN  UNION {
          LET ts == IF piece_type(b[s]) = PAWN
                    THEN PawnTargets(pos, s)
                    ELSE PieceTargets(pos, s)
          IN  UNION {{Move(s, t, pr) : pr \in Promotions(b[s], t)} : t \in ts}
          : s \in own}

\* playing m does not leave the mover's own king attacked
LeavesKingSafe(pos, m) ==
    LET after == PiecesAfter(pos, m)
    IN  ~IsAttackedBy(after, ~pos.turn, KingSquare(after, pos.turn))

legal_moves(pos) ==
    {m \in PseudoLegalMoves(pos) : LeavesKingSafe(pos, m)} \cup CastlingMoves(pos)

\* the legal moves of the piece standing on s
legal_moves_from(pos, s) ==
    LET b == pos.pieces
        ts == IF piece_type(b[s]) = PAWN
              THEN PawnTargets(pos, s)
              ELSE PieceTargets(pos, s)
        pseudo == UNION {{Move(s, t, pr) : pr \in Promotions(b[s], t)} : t \in ts}
    IN  IF b[s] = NoPiece \/ piece_color(b[s]) # pos.turn
        THEN {}
        ELSE {m \in pseudo : LeavesKingSafe(pos, m)}
                \cup (IF piece_type(b[s]) = KING
                      THEN {m \in CastlingMoves(pos) : m.from_square = s}
                      ELSE {})

is_legal_Always(pos, m) == TRUE

\* move in board.legal_moves (Board.is_legal)
is_legal(pos, m) == m \in legal_moves_from(pos, m.from_square)


(***************************************************************************)
(* Text forms: square names, UCI move text (Move.uci, Move.from_uci) and   *)
(* FEN (Board.set_fen).  A text is a sequence of one-character strings.    *)
(***************************************************************************)
FILE_NAMES == <<"a", "b", "c", "d", "e", "f", "g", "h">>

RANK_NAMES == <<"1", "2", "3", "4", "5", "6", "7", "8">>

PIECE_SYMBOLS == <<"p", "n", "b", "r", "q", "k">>

UPPER_SYMBOLS == <<"P", "N", "B", "R", "Q", "K">>

IndexOf(names, ch) == CHOOSE i \in 1..Len(names) : names[i] = ch

IsIn(names, ch) == \E i \in 1..Len(names) : names[i] = ch

square_name(sq) == <<FILE_NAMES[square_file(sq) + 1], RANK_NAMES[square_rank(sq) + 1]>>

parse_square(txt) == square(IndexOf(FILE_NAMES, txt[1]) - 1, IndexOf(RANK_NAMES, txt[2]) - 1)

\* Move.uci(): origin, destination and the promotion letter when there is one
uci(m) ==
    square_name(m.from_square) \o square_name(m.to_square)
        \o (IF m.promotion # 0 THEN <<PIECE_SYMBOLS[m.promotion]>> ELSE <<>>)

\* Move.from_uci()
from_uci(txt) ==
    Move(parse_square(SubSeq(txt, 1, 2)), parse_square(SubSeq(txt, 3, 4)),
         IF Len(txt) = 5 THEN IndexOf(PIECE_SYMBOLS, txt[5]) ELSE 0)

symbol_piece(ch) ==
    IF IsIn(UPPER_SYMBOLS, ch)
    THEN Piece(WHITE, IndexOf(UPPER_SYMBOLS, ch))
    ELSE Piece(BLACK, IndexOf(PIECE_SYMBOLS, ch))

EmptyBoard == [s \in SQUARES |-> NoPiece]

\* the placement field of a FEN, read from rank 8 down, files a to h
RECURSIVE ParsePlacement(_, _, _, _, _)
ParsePlacement(txt, i, f, r, acc) ==
    IF i > Len(txt) THEN acc
    ELSE IF txt[i] = "/" THEN ParsePlacement(txt, i + 1, 0, r - 1, acc)
    ELSE IF IsIn(RANK_NAMES, txt[i])
         THEN ParsePlacement(txt, i + 1, f + IndexOf(RANK_NAMES, txt[i]), r, acc)
    ELSE ParsePlacement(txt, i + 1, f + 1, r,
                        [acc EXCEPT ![square(f, r)] = symbol_piece(txt[i])])

CastlingRook(ch) ==
    CASE ch = "K" -> square(7, 0)
      [] ch = "Q" -> square(0, 0)
      [] ch = "k" -> square(7, 7)
      [] ch = "q" -> square(0, 7)

\* Board.set_fen: a fresh board holding the position of the FEN
ParseFen(fen) ==
    [pieces |-> ParsePlacement(fen.placement, 1, 0, 7, EmptyBoard),
     turn |-> (fen.turn = "w"),
     castling_rights |-> {CastlingRook(fen.castling[i]) : i \in 1..Len(fen.castling)},
     ep_square |-> IF fen.ep = <<>> THEN -1 ELSE parse_square(fen.ep),
     move_stack |-> <<>>,
     stack |-> <<>>]

\* chess.STARTING_FEN, the position of chess.Board()
STARTING_FEN ==
    [placement |-> <<"r", "n", "b", "q", "k", "b", "n", "r", "/", "p", "p", "p", "p", "p", "p", "p", "p", "/", "8", "/", "8", "/", "8", "/", "8", "/", "P", "P", "P", "P", "P", "P", "P", "P", "/", "R", "N", "B", "Q", "K", "B", "N", "R">>,
     turn |-> "w",
     castling |-> <<"K", "Q", "k", "q">>,
     ep |-> <<>>]

\* test_kingside_castling
FEN_KINGSIDE ==
    [placement |-> <<"r", "1", "b", "q", "k", "2", "r", "/", "p", "p", "p", "p", "1", "p", "p", "p", "/", "2", "n", "2", "n", "2", "/", "2", "b", "1", "p", "3", "/", "2", "B", "1", "P", "3", "/", "5", "N", "2", "/", "P", "P", "P", "P", "1", "P", "P", "P", "/", "R", "N", "B", "Q", "K", "2", "R">>,
     turn |-> "w",
     castling |-> <<"K", "Q", "k", "q">>,
     ep |-> <<>>]

\* test_en_passant
FEN_EN_PASSANT ==
    [placement |-> <<"r", "n", "b", "q", "k", "b", "n", "r", "/", "p", "p", "p", "1", "p", "p", "p", "p", "/", "8", "/", "3", "p", "P", "3", "/", "8", "/", "8", "/", "P", "P", "P", "P", "1", "P", "P", "P", "/", "R", "N", "B", "Q", "K", "B", "N", "R">>,
     turn |-> "w",
     castling |-> <<"K", "Q", "k", "q">>,
     ep |-> <<"d", "6">>]

\* white to move: both castlings, promotion on b8, capturing promotion on a8,
\* two captures from e4
FEN_WHITE_MIX ==
    [placement |-> <<"r", "3", "k", "2", "r", "/", "1", "P", "6", "/", "8", "/", "3", "p", "1", "p", "2", "/", "4", "P", "3", "/", "8", "/", "8", "/", "R", "3", "K", "2", "R">>,
     turn |-> "w",
     castling |-> <<"K", "Q", "k", "q">>,
     ep |-> <<>>]

\* black to move: the mirror of the above
FEN_BLACK_MIX ==
    [placement |-> <<"r", "3", "k", "2", "r", "/", "8", "/", "8", "/", "8", "/", "3", "p", "4", "/", "2", "P", "1", "P", "3", "/", "1", "p", "6", "/", "R", "3", "K", "2", "R">>,
     turn |-> "b",
     castling |-> <<"K", "Q", "k", "q">>,
     ep |-> <<>>]

\* white to move after d7d5: both c5 and e5 may capture en passant on d6
FEN_DOUBLE_EP ==
    [placement |-> <<"4", "k", "3", "/", "8", "/", "8", "/", "2", "P", "p", "P", "3", "/", "8", "/", "8", "/", "8", "/", "4", "K", "3">>,
     turn |-> "w",
     castling |-> <<>>,
     ep |-> <<"d", "6">>]

Fens == {FEN_KINGSIDE, FEN_EN_PASSANT, FEN_WHITE_MIX, FEN_BLACK_MIX, FEN_DOUBLE_EP}

(***************************************************************************)
(* Board.push / Board.pop / Board.reset on the board object, which keeps   *)
(* the move stack and the stack of earlier positions.                      *)
(***************************************************************************)
Position(bd) ==
    [pieces |-> bd.pieces, turn |-> bd.turn,
     castling_rights |-> bd.castling_rights, ep_square |-> bd.ep_square]

push(bd, m) ==
    LET p == PositionAfter(bd, m)
    IN  [pieces |-> p.pieces, turn |-> p.turn,
         castling_rights |-> p.castling_rights, ep_square |-> p.ep_square,
         move_stack |-> Append(bd.move_stack, m),
         stack |-> Append(bd.stack, Position(bd))]

pop(bd) ==
    LET n == Len(bd.stack)
        p == bd.stack[n]
    IN  [pieces |-> p.pieces, turn |-> p.turn,
         castling_rights |-> p.castling_rights, ep_square |-> p.ep_square,
         move_stack |-> SubSeq(bd.move_stack, 1, n - 1),
         stack |-> SubSeq(bd.stack, 1, n - 1)]

StartBoard == ParseFen(STARTING_FEN)


(***************************************************************************)
(* State.                                                                  *)
(*   board      the canonical python-chess board (GameState.board)         *)
(*   gs_call    the last GameState operation: its name, the snapshot it    *)
(*              was given, the move physically played to produce that      *)
(*              snapshot (None when the snapshot is no move's), and the    *)
(*              board before the call                                      *)
(*   gs_result  what process_occupancy_change returned: (move, status)     *)
(*   noise      the NoiseHandler object                                    *)
(*   nh_call    the last NoiseHandler operation: its name, the changed set *)
(*              it was given, the handler before the call, and what the    *)
(*              call returned (state, data)                                *)
(*   nh_hist    counts of the consecutive calls the timing claims speak    *)
(*              of: the run of identical non-empty changed sets of at most *)
(*              NOISE_THRESHOLD squares that began in IDLE,                *)
(*              and the run of empty sets right after a noisy call         *)
(*   sess       the session object (LichessSession, or LichessGame in      *)
(*              play_lichess.py): waiting_for_opponent, last_lichess_moves,*)
(*              stable_occupancy, stable_count, last_move_time, status and *)
(*              the radar fields                                           *)
(*   board_lock who holds the lock of the session (board_lock, an RLock;   *)
(*              turn_lock in play_lichess.py)                              *)
(*   frame      the frame loop: where it is in the current frame and the   *)
(*              locals it carries between steps                            *)
(*   listener   the stream thread: where it is in _sync_moves, the move    *)
(*              list it was given and the index of the replay              *)
(*   relay      the relay: the move list of the game on the server, the    *)
(*              server's position, the events not yet taken by the         *)
(*              listener, and the colour the client has learnt             *)
(*   ss_obs     what the last detected move met: the board and             *)
(*              last_lichess_moves when it was detected, the move, the     *)
(*              answer of make_move, and how the last _sync_moves call     *)
(*              returned                                                   *)
(*   clock      seconds since the session was built, as time.time()        *)
(*              reads them in on_frame of GameSession                      *)
(*   detector   the ChangeDetector: calibrated, the per-square models      *)
(*              and the focus set                                          *)
(*   cd_call    the last ChangeDetector operation, what it returned and    *)
(*              how many operations have run                               *)
(*   md_call    the one call of detect_move: the two placements, their     *)
(*              FEN texts and the result                                   *)
(*   smd        the StableMoveDetector: stability_threshold,               *)
(*              confirmed_fen, state, candidate_fen, candidate_count       *)
(*   smd_call   the last StableMoveDetector operation and its result       *)
(*   smd_hist   lengths of the runs of identical frames given to process   *)
(*   scan       the smart scan of on_frame: frame_count, whether the last  *)
(*              frame was a full scan, and the squares_to_check it built   *)
(***************************************************************************)
VARIABLES board, gs_call, gs_result, noise, nh_call, nh_hist,
          sess, board_lock, frame, listener, relay, ss_obs, clock,
          detector, cd_call, md_call, smd, smd_call, smd_hist, scan

gameVars == <<board, gs_call, gs_result>>

noiseVars == <<noise, nh_call, nh_hist>>

sessionVars == <<sess, board_lock, frame, listener, relay, ss_obs, clock>>

\* the components that run on their own: ChangeDetector, detect_move,
\* StableMoveDetector
detectorVars == <<detector, cd_call>>

moveVars == <<md_call>>

stableVars == <<smd, smd_call, smd_hist>>

scanVars == <<scan>>

componentVars == <<detectorVars, moveVars, stableVars, scanVars>>

vars == <<board, gs_call, gs_result, noise, nh_call, nh_hist,
          sess, board_lock, frame, listener, relay, ss_obs, clock,
          detector, cd_call, md_call, smd, smd_call, smd_hist, scan>>

(***************************************************************************)
(* GameState (game_state.py).                                              *)
(***************************************************************************)
get_board_occupancy(bd) ==
    {SquareTuple(sq) : sq \in {s \in SQUARES : bd.pieces[s] # NoPiece}}

validate_move_NoPromotion(legal, src_tuple, dst_tuple) ==
    LET move == Move(square(src_tuple[1], src_tuple[2]),
                     square(dst_tuple[1], dst_tuple[2]), 0)
    IN  IF move \in legal THEN move ELSE None

validate_move(legal, src_tuple, dst_tuple) ==
    LET src_sq == square(src_tuple[1], src_tuple[2])
        dst_sq == square(dst_tuple[1], dst_tuple[2])
        move == Move(src_sq, dst_sq, 0)
        move_prom == Move(src_sq, dst_sq, QUEEN)
    IN  IF move \in legal THEN move
        ELSE IF move_prom \in legal THEN move_prom
        ELSE None

\* The loops run over list(vanished) and list(appeared), whose order is the
\* set's iteration order: the value returned is the first match of some
\* order, so any match can be the one returned.
detect_castling(bd, legal, vanished, appeared) ==
    LET found == {Move(square(v[1], v[2]), square(a[1], a[2]), 0) :
                    <<v, a>> \in {va \in vanished \X appeared :
                        /\ piece_type(bd.pieces[square(va[1][1], va[1][2])]) = KING
                        /\ Abs(va[2][1] - va[1][1]) = 2
                        /\ va[2][2] = va[1][2]
                        /\ Move(square(va[1][1], va[1][2]),
                                square(va[2][1], va[2][2]), 0) \in legal}}
    IN  IF found = {} THEN {None} ELSE found

detect_en_passant(bd, legal, vanished, appeared) ==
    LET dst == CHOOSE a \in appeared : TRUE
        dst_sq == square(dst[1], dst[2])
        found == {Move(square(src[1], src[2]), dst_sq, 0) :
                    src \in {v \in vanished :
                        /\ piece_type(bd.pieces[square(v[1], v[2])]) = PAWN
                        /\ Move(square(v[1], v[2]), dst_sq, 0) \in legal
                        /\ is_en_passant(bd, Move(square(v[1], v[2]), dst_sq, 0))}}
    IN  IF found = {} THEN {None} ELSE found

detect_capture_Guesses(bd, legal, src, vision_occupancy_grid) ==
    LET src_sq == square(src[1], src[2])
        candidates == {move \in legal :
                          /\ move.from_square = src_sq
                          /\ is_capture(bd, move)
                          /\ SquareTuple(move.to_square) \in vision_occupancy_grid}
    IN  IF Cardinality(candidates) >= 1 THEN CHOOSE move \in candidates : TRUE
        ELSE False

detect_capture(bd, legal, src, vision_occupancy_grid) ==
    LET src_sq == square(src[1], src[2])
        candidates == {move \in legal :
                          /\ move.from_square = src_sq
                          /\ is_capture(bd, move)
                          /\ SquareTuple(move.to_square) \in vision_occupancy_grid}
    IN  IF Cardinality(candidates) = 1 THEN CHOOSE move \in candidates : TRUE
        ELSE IF Cardinality(candidates) > 1 THEN None
        ELSE False

\* what a call returns and the move it pushed on the board (None: no push)
Outcome(mv, st, pushed) == [move |-> mv, status |-> st, pushed |-> pushed]

CaseNormalMove_PushFirst(bd, legal, vanished, appeared) ==
    LET src == CHOOSE v \in vanished : TRUE
        dst == CHOOSE a \in appeared : TRUE
        tried == Move(square(src[1], src[2]), square(dst[1], dst[2]), 0)
        move == validate_move(legal, src, dst)
    IN  IF IsMove(move)
        THEN {Outcome(move, "move_confirmed", move)}
        ELSE {Outcome(None, "illegal_move", tried)}

\* Case A: 1 vanished, 1 appeared
CaseNormalMove(bd, legal, vanished, appeared) ==
    LET src == CHOOSE v \in vanished : TRUE
        dst == CHOOSE a \in appeared : TRUE
        move == validate_move(legal, src, dst)
    IN  IF IsMove(move)
        THEN {Outcome(move, "move_confirmed", move)}
        ELSE {Outcome(None, "illegal_move", None)}

\* Case B: 2 vanished, 2 appeared; the empty set when the code falls through
CaseCastling(bd, legal, vanished, appeared) ==
    {Outcome(move, "castling_confirmed", move) :
        move \in {m \in detect_castling(bd, legal, vanished, appeared) : IsMove(m)}}

\* Case C: 2 vanished, 1 appeared
CaseEnPassant(bd, legal, vanished, appeared) ==
    {Outcome(move, "en_passant_confirmed", move) :
        move \in {m \in detect_en_passant(bd, legal, vanished, appeared) : IsMove(m)}}

\* Case D: 1 vanished, 0 appeared
CaseCapture(bd, legal, vanished, vision_occupancy_grid) ==
    LET src == CHOOSE v \in vanished : TRUE
        move == detect_capture(bd, legal, src, vision_occupancy_grid)
    IN  IF IsMove(move) THEN {Outcome(move, "capture_confirmed", move)}
        ELSE IF move = None THEN {Outcome(None, "ambiguous_capture", None)}
        ELSE {}

\* the outcomes of process_occupancy_change(vision_occupancy_grid) on bd
process_occupancy_change(bd, legal, vision_occupancy_grid) ==
    LET logical_occupied == get_board_occupancy(bd)
        vanished == logical_occupied \ vision_occupancy_grid
        appeared == vision_occupancy_grid \ logical_occupied
        n_vanished == Cardinality(vanished)
        n_appeared == Cardinality(appeared)
        caseB == IF n_vanished = 2 /\ n_appeared = 2
                 THEN CaseCastling(bd, legal, vanished, appeared) ELSE {}
        caseC == IF n_vanished = 2 /\ n_appeared = 1
                 THEN CaseEnPassant(bd, legal, vanished, appeared) ELSE {}
        caseD == IF n_vanished = 1 /\ n_appeared = 0
                 THEN CaseCapture(bd, legal, vanished, vision_occupancy_grid) ELSE {}
    IN  IF n_vanished = 1 /\ n_appeared = 1
        THEN CaseNormalMove(bd, legal, vanished, appeared)
        ELSE IF caseB # {} THEN caseB
        ELSE IF caseC # {} THEN caseC
        ELSE IF caseD # {} THEN caseD
        ELSE {Outcome(None, "no_valid_change", None)}

(***************************************************************************)
(* The snapshots handed to process_occupancy_change.                       *)
(***************************************************************************)
\* the occupancy after m has been played physically on the board of bd:
\* origin removed, destination added; the captured pawn's square removed
\* for en passant; the rook's squares changed for castling
PhysicalSnapshot(bd, m) ==
    LET occ == get_board_occupancy(bd)
        rk  == square_rank(m.from_square)
        ks  == square_file(m.to_square) = 6
        moved == (occ \ {SquareTuple(m.from_square)}) \cup {SquareTuple(m.to_square)}
    IN  IF is_en_passant(bd, m)
        THEN moved \ {<<square_file(m.to_square), rk>>}
        ELSE IF IsCastlingMove(bd.pieces, m)
        THEN (moved \ {<<IF ks THEN 7 ELSE 0, rk>>}) \cup {<<IF ks THEN 5 ELSE 3, rk>>}
        ELSE moved

\* squares whose occupancy the vision may report wrongly:
\* e1, g1, e4, e5, d6, c5
ProbeSquares ==
    {<<4, 0>>, <<6, 0>>, <<4, 3>>, <<4, 4>>, <<3, 5>>, <<2, 4>>}

\* occ with the occupancy of every square of T flipped
Toggle(occ, T) == (occ \ T) \cup (T \ occ)

ToggleSets == {T \in SUBSET ProbeSquares : Cardinality(T) <= MaxToggle}

NoCall(bd, op) ==
    [op |-> op, vision |-> {}, played |-> None, before |-> bd]

(***************************************************************************)
(* NoiseHandler (noise_handler.py).  A handler is a record of its fields;  *)
(* each _process_* method is an operator from the handler and the changed  *)
(* set to the handler after the call and the (state, data) it returns.     *)
(***************************************************************************)
NOISE_THRESHOLD == 3

STABILITY_FRAMES == 12

COOLDOWN_FRAMES == 5

\* None as a square
NoSquare == <<-1, -1>>

\* NoiseHandler.__init__ and NoiseHandler._reset
NoiseHandlerInit ==
    [state |-> "IDLE", pending_squares |-> {}, stable_count |-> 0,
     cooldown_count |-> 0, last_lifted_square |-> NoSquare]

\* the returned (state, data): keys is the set of keys data has; squares,
\* lifted and stable are data's values (an absent key reads {}, NoSquare,
\* FALSE)
NoiseData(st, message, keys, squares, lifted, stable) ==
    [state |-> st, message |-> message, keys |-> keys,
     squares |-> squares, lifted |-> lifted, stable |-> stable]

Returned(h, data) == [handler |-> h, result |-> data]

\* list(changed_squares)[0] of a one-element set
OnlySquare(changed_squares) == CHOOSE sq \in changed_squares : TRUE

process_idle_ResetsCooldown(h, changed_squares, n_changes) ==
    IF n_changes = 0
    THEN Returned([h EXCEPT !.cooldown_count = 1],
                  NoiseData("IDLE", "waiting", {"message"}, {}, NoSquare, FALSE))
    ELSE IF n_changes > NOISE_THRESHOLD
    THEN Returned([h EXCEPT !.state = "NOISE_ACTIVE", !.cooldown_count = 0],
                  NoiseData("NOISE_ACTIVE", "hand_detected",
                            {"message", "changed_count"}, {}, NoSquare, FALSE))
    ELSE LET lifted == IF n_changes = 1 THEN OnlySquare(changed_squares) ELSE NoSquare
         IN  Returned([h EXCEPT !.state = "MOVE_PENDING",
                                !.pending_squares = changed_squares,
                                !.stable_count = 1,
                                !.last_lifted_square = lifted],
                      NoiseData("MOVE_PENDING", "detecting",
                                {"message", "squares", "lifted", "stable", "progress"},
                                changed_squares, lifted, FALSE))

\* NoiseHandler._process_idle
process_idle(h, changed_squares, n_changes) ==
    IF n_changes = 0
    THEN Returned(h, NoiseData("IDLE", "waiting", {"message"}, {}, NoSquare, FALSE))
    ELSE IF n_changes > NOISE_THRESHOLD
    THEN Returned([h EXCEPT !.state = "NOISE_ACTIVE", !.cooldown_count = 0],
                  NoiseData("NOISE_ACTIVE", "hand_detected",
                            {"message", "changed_count"}, {}, NoSquare, FALSE))
    ELSE LET lifted == IF n_changes = 1 THEN OnlySquare(changed_squares) ELSE NoSquare
         IN  Returned([h EXCEPT !.state = "MOVE_PENDING",
                                !.pending_squares = changed_squares,
                                !.stable_count = 1,
                                !.last_lifted_square = lifted],
                      NoiseData("MOVE_PENDING", "detecting",
                                {"message", "squares", "lifted", "stable", "progress"},
                                changed_squares, lifted, FALSE))

process_noise_LateClear(h, changed_squares, n_changes) ==
    IF n_changes = 0
    THEN IF h.cooldown_count + 1 > COOLDOWN_FRAMES
         THEN Returned([h EXCEPT !.state = "IDLE", !.cooldown_count = 0],
                       NoiseData("IDLE", "noise_cleared", {"message"}, {}, NoSquare, FALSE))
         ELSE Returned([h EXCEPT !.cooldown_count = h.cooldown_count + 1],
                       NoiseData("NOISE_ACTIVE", "clearing",
                                 {"message", "cooldown", "progress"}, {}, NoSquare, FALSE))
    ELSE IF n_changes <= NOISE_THRESHOLD
    THEN IF h.cooldown_count + 1 >= COOLDOWN_FRAMES
         THEN Returned([h EXCEPT !.state = "MOVE_PENDING",
                                 !.pending_squares = changed_squares,
                                 !.stable_count = 1,
                                 !.cooldown_count = h.cooldown_count + 1],
                       NoiseData("MOVE_PENDING", "detecting",
                                 {"message", "squares", "stable"},
                                 changed_squares, NoSquare, FALSE))
         ELSE Returned([h EXCEPT !.cooldown_count = h.cooldown_count + 1],
                       NoiseData("NOISE_ACTIVE", "stabilizing",
                                 {"message", "changed_count"}, {}, NoSquare, FALSE))
    ELSE Returned([h EXCEPT !.cooldown_count = 0],
                  NoiseData("NOISE_ACTIVE", "hand_active",
                            {"message", "changed_count"}, {}, NoSquare, FALSE))

\* NoiseHandler._process_noise
process_noise(h, changed_squares, n_changes) ==
    IF n_changes = 0
    THEN IF h.cooldown_count + 1 >= COOLDOWN_FRAMES
         THEN Returned([h EXCEPT !.state = "IDLE", !.cooldown_count = 0],
                       NoiseData("IDLE", "noise_cleared", {"message"}, {}, NoSquare, FALSE))
         ELSE Returned([h EXCEPT !.cooldown_count = h.cooldown_count + 1],
                       NoiseData("NOISE_ACTIVE", "clearing",
                                 {"message", "cooldown", "progress"}, {}, NoSquare, FALSE))
    ELSE IF n_changes <= NOISE_THRESHOLD
    THEN IF h.cooldown_count + 1 >= COOLDOWN_FRAMES
         THEN Returned([h EXCEPT !.state = "MOVE_PENDING",
                                 !.pending_squares = changed_squares,
                                 !.stable_count = 1,
                                 !.cooldown_count = h.cooldown_count + 1],
                       NoiseData("MOVE_PENDING", "detecting",
                                 {"message", "squares", "stable"},
                                 changed_squares, NoSquare, FALSE))
         ELSE Returned([h EXCEPT !.cooldown_count = h.cooldown_count + 1],
                       NoiseData("NOISE_ACTIVE", "stabilizing",
                                 {"message", "changed_count"}, {}, NoSquare, FALSE))
    ELSE Returned([h EXCEPT !.cooldown_count = 0],
                  NoiseData("NOISE_ACTIVE", "hand_active",
                            {"message", "changed_count"}, {}, NoSquare, FALSE))

\* the three branches of _process_pending that do not end in NOISE_ACTIVE
PendingSettling(h, changed_squares, n_changes, ready) ==
    IF n_changes = 0
    THEN IF ready
         THEN Returned(NoiseHandlerInit,
                       NoiseData("IDLE", "move_ready", {"message", "squares", "stable"},
                                 h.pending_squares, NoSquare, TRUE))
         ELSE Returned([h EXCEPT !.stable_count = h.stable_count + 1],
                       NoiseData("MOVE_PENDING", "stabilizing",
                                 {"message", "squares", "stable", "progress"},
                                 h.pending_squares, NoSquare, FALSE))
    ELSE IF changed_squares = h.pending_squares
    THEN IF ready
         THEN Returned([h EXCEPT !.stable_count = h.stable_count + 1],
                       NoiseData("MOVE_PENDING", "stable_ready",
                                 {"message", "squares", "stable", "progress"},
                                 h.pending_squares, NoSquare, TRUE))
         ELSE Returned([h EXCEPT !.stable_count = h.stable_count + 1],
                       NoiseData("MOVE_PENDING", "counting",
                                 {"message", "squares", "lifted", "stable", "progress"},
                                 h.pending_squares,
                                 IF Cardinality(h.pending_squares) = 1
                                 THEN h.last_lifted_square ELSE NoSquare,
                                 FALSE))
    ELSE LET lifted == IF n_changes = 1 THEN OnlySquare(changed_squares) ELSE NoSquare
         IN  Returned([h EXCEPT !.pending_squares = changed_squares,
                                !.stable_count = 1,
                                !.last_lifted_square = lifted],
                      NoiseData("MOVE_PENDING", "updated",
                                {"message", "squares", "lifted", "stable", "progress"},
                                changed_squares, lifted, FALSE))

process_pending_KeepsCandidate(h, changed_squares, n_changes) ==
    IF n_changes > NOISE_THRESHOLD
    THEN Returned([h EXCEPT !.state = "NOISE_ACTIVE", !.cooldown_count = 0],
                  NoiseData("NOISE_ACTIVE", "interrupted_by_hand",
                            {"message", "changed_count"}, {}, NoSquare, FALSE))
    ELSE PendingSettling(h, changed_squares, n_changes,
                         h.stable_count + 1 >= STABILITY_FRAMES)

process_pending_LateReady(h, changed_squares, n_changes) ==
    IF n_changes > NOISE_THRESHOLD
    THEN Returned([h EXCEPT !.state = "NOISE_ACTIVE", !.pending_squares = {},
                            !.stable_count = 0, !.cooldown_count = 0],
                  NoiseData("NOISE_ACTIVE", "interrupted_by_hand",
                            {"message", "changed_count"}, {}, NoSquare, FALSE))
    ELSE PendingSettling(h, changed_squares, n_changes,
                         h.stable_count + 1 > STABILITY_FRAMES)

\* NoiseHandler._process_pending
process_pending(h, changed_squares, n_changes) ==
    IF n_changes > NOISE_THRESHOLD
    THEN Returned([h EXCEPT !.state = "NOISE_ACTIVE", !.pending_squares = {},
                            !.stable_count = 0, !.cooldown_count = 0],
                  NoiseData("NOISE_ACTIVE", "interrupted_by_hand",
                            {"message", "changed_count"}, {}, NoSquare, FALSE))
    ELSE PendingSettling(h, changed_squares, n_changes,
                         h.stable_count + 1 >= STABILITY_FRAMES)

\* NoiseHandler.process
noise_process(h, changed_squares) ==
    LET n_changes == Cardinality(changed_squares)
    IN  IF h.state = "IDLE" THEN process_idle(h, changed_squares, n_changes)
        ELSE IF h.state = "NOISE_ACTIVE" THEN process_noise(h, changed_squares, n_changes)
        ELSE process_pending(h, changed_squares, n_changes)

\* NoiseHandler.is_blocked
is_blocked(h) == h.state = "NOISE_ACTIVE"

(***************************************************************************)
(* The session: GameSession / LichessSession (game_session.py,             *)
(* lichess_session.py), the loop of play_lichess.py, and the relay         *)
(* (lichess_client.py).                                                    *)
(***************************************************************************)
STABILITY_REQUIRED == 20

\* seconds; time.time() is counted in whole seconds
MOVE_COOLDOWN == 2

\* the last value of time.time() a frame reads
MaxClock == 7

\* moves of the game on the server, beyond which nobody moves
MaxRemote == 2

\* frames over which the same occupancy is counted (stable_count is never
\* capped by the code while the occupancy stays the same): one frame more
\* than STABILITY_REQUIRED, so that the frame following a detection is seen
MaxStableFrames == 21

\* the side the account plays (LichessClient._set_my_color)
MY_COLOR == "white"

\* the game played: 1. e4 e5 2. Nf3
GameLine ==
    << <<"e", "2", "e", "4">>, <<"e", "7", "e", "5">>, <<"g", "1", "f", "3">> >>

\* str.split(): the words of a text between blanks
RECURSIVE SplitFrom(_, _, _, _)
SplitFrom(txt, i, cur, acc) ==
    IF i > Len(txt)
    THEN IF cur = <<>> THEN acc ELSE Append(acc, cur)
    ELSE IF txt[i] = " "
    THEN SplitFrom(txt, i + 1, <<>>, IF cur = <<>> THEN acc ELSE Append(acc, cur))
    ELSE SplitFrom(txt, i + 1, Append(cur, txt[i]), acc)

split(txt) == SplitFrom(txt, 1, <<>>, <<>>)

\* last_lichess_moves += f" {uci}" if last_lichess_moves else uci
AppendMove(moves_str, uci_move) ==
    IF moves_str # <<>> THEN moves_str \o <<" ">> \o uci_move ELSE uci_move

\* the move list text the server sends for the first k moves of the game
RECURSIVE MovesText(_)
MovesText(k) ==
    IF k = 0 THEN <<>> ELSE AppendMove(MovesText(k - 1), GameLine[k])

\* Board.push_uci inside try / except: pass: an illegal move is skipped
push_uci(bd, txt) ==
    LET m == from_uci(txt)
    IN  IF is_legal(bd, m) THEN push(bd, m) ELSE bd

\* the board after the first k moves of the game
RECURSIVE BoardAfter(_)
BoardAfter(k) ==
    IF k = 0 THEN StartBoard ELSE push(BoardAfter(k - 1), from_uci(GameLine[k]))

\* the uci texts of the board's move stack
MoveStackWords(bd) == [i \in 1..Len(bd.move_stack) |-> uci(bd.move_stack[i])]

\* LichessClient.is_my_turn
is_my_turn(my_color, moves_str) ==
    IF my_color = ""
    THEN FALSE
    ELSE LET move_count == Len(split(moves_str))
         IN  IF my_color = "white" THEN move_count % 2 = 0 ELSE move_count % 2 = 1

\* what the server answers 200 to: a legal move of the account's side
ServerAccepts(rl, uci_move) ==
    /\ rl.board.turn = (MY_COLOR = "white")
    /\ is_legal(rl.board, from_uci(uci_move))

\* the server's game after a move was accepted: one more gameState event
RelayAfter(rl, uci_move) ==
    LET moves == AppendMove(rl.moves, uci_move)
    IN  [rl EXCEPT !.moves = moves,
                   !.board = push(rl.board, from_uci(uci_move)),
                   !.stream = Append(rl.stream, [type |-> "gameState", moves |-> moves, status |-> "started"])]

\* what the camera can show of the board: the occupancy after 0 .. MaxRemote
\* moves of the game
Snapshots ==
    LET n == IF MaxRemote < Len(GameLine) THEN MaxRemote ELSE Len(GameLine)
    IN  {get_board_occupancy(BoardAfter(k)) : k \in 0..n}

\* stable_occupancy = None
NoOccupancy == {NoSquare}

\* the stability bookkeeping of _process_stable_move
StabilityAfter(s, total_diff, vision_occupied) ==
    IF total_diff > 4
    THEN [s EXCEPT !.stable_count = 0, !.stable_occupancy = {}]
    ELSE IF s.stable_occupancy = vision_occupied
    THEN [s EXCEPT !.stable_count = @ + 1]
    ELSE [s EXCEPT !.stable_occupancy = vision_occupied, !.stable_count = 1]

\* the candidate of one (origin, destination) pair, with auto-queen
NormalCandidate(bd, orig, dest) ==
    LET move_cand == Move(square(orig[1], orig[2]), square(dest[1], dest[2]), 0)
        move_cand_promo == Move(square(orig[1], orig[2]), square(dest[1], dest[2]), QUEEN)
    IN  IF ~is_legal(bd, move_cand) /\ is_legal(bd, move_cand_promo)
        THEN move_cand_promo
        ELSE move_cand

\* the session after a commit in _process_stable_move: last_move_time,
\* piece_detector.update_references(squares) and stable_count (the images of
\* a frame are known by the occupancy they show)
after_commit_KeepsReferences(s, current_time, squares) ==
    [s EXCEPT !.last_move_time = current_time,
              !.stable_count = 0]

after_commit(s, current_time, squares) ==
    [s EXCEPT !.last_move_time = current_time,
              !.reference_squares = squares,
              !.stable_count = 0]

\* on_frame runs the full scan when frame_count is a multiple of this
FULL_SCAN_PERIOD == 30

\* frame_count, which on_frame sets back to 0 once a second
MaxFrameCount == 31

\* moves played before the smart scan is looked at
MaxScanPly == 1

\* squares_to_check of on_frame on a frame of the smart scan
smart_squares_to_check(bd) ==
    get_board_occupancy(bd)
        \cup {<<square_file(m.to_square), 7 - square_rank(m.to_square)>> :
                 m \in legal_moves(bd)}

SmartScanInit ==
    [frame_count |-> 0, called |-> FALSE, full_scan |-> FALSE, squares_to_check |-> {}]

\* GameSession._infer_move: the one legal move the differences point to
infer_move(bd, diff_missing, diff_extra, vision_occupied) ==
    LET normal == {m \in {NormalCandidate(bd, o, d) : o \in diff_missing, d \in diff_extra} :
                      is_legal(bd, m)}
        captures == UNION {{m \in legal_moves_from(bd, square(o[1], o[2])) :
                               /\ is_capture(bd, m)
                               /\ SquareTuple(m.to_square) \in vision_occupied}
                           : o \in diff_missing}
        unique_moves == normal \cup captures
    IN  IF Cardinality(unique_moves) = 1
        THEN CHOOSE m \in unique_moves : TRUE
        ELSE None

\* cooldown_ok of _process_stable_move
cooldown_ok_at_AtLeast(current_time, last_move_time) ==
    (current_time - last_move_time) >= MOVE_COOLDOWN

cooldown_ok_at(current_time, last_move_time) ==
    (current_time - last_move_time) > MOVE_COOLDOWN

\* GameSession._update_radar_ui: the lifted piece and where it may go
update_radar_ui(s, bd, vision_occupied) ==
    LET expected_occupied == get_board_occupancy(bd)
        lifted_squares == expected_occupied \ vision_occupied
        pos == OnlySquare(lifted_squares)
        sq_idx == square(pos[1], pos[2])
        piece == bd.pieces[sq_idx]
    IN  IF Cardinality(lifted_squares) = 1
           /\ piece # NoPiece /\ piece_color(piece) = bd.turn
        THEN [s EXCEPT !.lifted_piece_square = pos,
                       !.current_radar_destinations =
                           {SquareTuple(m.to_square) : m \in legal_moves_from(bd, sq_idx)}]
        ELSE [s EXCEPT !.lifted_piece_square = NoSquare,
                       !.current_radar_destinations = {}]

\* whether a read of the board made now falls between the listener's reset
\* of the board and the last move of its replay
MidReplay(ls) == ls.pc = "replay" /\ ls.i <= Len(split(ls.moves_str))

LichessSessionInit ==
    [waiting_for_opponent |-> FALSE, last_lichess_moves |-> <<>>,
     stable_occupancy |-> NoOccupancy, stable_count |-> 0, last_move_time |-> 0,
     status |-> "IDLE", lifted_piece_square |-> NoSquare,
     current_radar_destinations |-> {},
     reference_squares |-> get_board_occupancy(StartBoard),
     stop_event |-> FALSE]

FrameIdle ==
    [pc |-> "idle", vision_occupied |-> {}, noise_state |-> "IDLE",
     expected_occupied |-> {}, lifted |-> NoSquare, detected_move |-> None,
     cooldown_ok |-> TRUE, mid_replay_read |-> FALSE,
     current_time |-> 0, prev_move_time |-> 0, committed |-> FALSE,
     noise_stable |-> FALSE]

ListenerIdle == [pc |-> "idle", moves_str |-> <<>>, i |-> 0]

RelayInit ==
    [game_id |-> FALSE, moves |-> <<>>, board |-> StartBoard, stream |-> <<>>,
     my_color |-> "", closed |-> FALSE, color |-> MY_COLOR]

NoDetection ==
    [before |-> StartBoard, last_before |-> <<>>, sent |-> None, send |-> "",
     sync_exit |-> ""]

(***************************************************************************)
(* ChangeDetector (change_detector.py).  A square's image is one grey      *)
(* level (every pixel alike, so the blur changes nothing), a model's mean  *)
(* and variance are whole numbers (the float results rounded down).  A     *)
(* dict is a function on its keys; focus_squares = {} stands for None.     *)
(***************************************************************************)
\* DEFAULT_SETTINGS: z_threshold 2.5 as a fraction, alpha 0.15 in percent
Z_THRESHOLD_NUM == 5

Z_THRESHOLD_DEN == 2

ALPHA_PERCENT == 15

INITIAL_VARIANCE == 400

\* the squares the grid hands over: e2 and e4
Positions == {<<4, 1>>, <<4, 3>>}

\* grey levels: the calibrated level, a shadow on it, a piece or a hand
Intensities == {100, 130, 220}

ChangeDetectorInit ==
    [is_calibrated |-> FALSE, gaussian_models |-> <<>>, reference_squares |-> <<>>,
     focus_squares |-> {}]

\* what a call gives back: the detector after it, the keys of the dict it
\* returns, and whether it raised instead of returning
Detected(d, keys, raised) == [detector |-> d, result |-> keys, raised |-> raised]

NewModel(processed) == [mean |-> processed, variance |-> INITIAL_VARIANCE]

calibrate(d, squares_dict) ==
    [d EXCEPT !.gaussian_models = [pos \in DOMAIN squares_dict |-> NewModel(squares_dict[pos])],
              !.reference_squares = squares_dict,
              !.is_calibrated = TRUE]

\* _calculate_zscore(...) > z_threshold:  |current - mean| / sigma > 5/2
zscore_exceeds(current_processed, model) ==
    LET diff == Abs(current_processed - model.mean)
    IN  Z_THRESHOLD_DEN * Z_THRESHOLD_DEN * diff * diff
            > Z_THRESHOLD_NUM * Z_THRESHOLD_NUM * Max(model.variance, 1)

\* _update_gaussian with is_background=True
update_gaussian(model, current_processed) ==
    LET diff_sq == (current_processed - model.mean) * (current_processed - model.mean)
        new_mean == ((100 - ALPHA_PERCENT) * model.mean
                        + ALPHA_PERCENT * current_processed) \div 100
        new_variance == ((100 - ALPHA_PERCENT) * model.variance
                            + ALPHA_PERCENT * diff_sq) \div 100
    IN  [mean |-> new_mean, variance |-> Max(new_variance, 1)]

\* the loop shared by detect_changes and detect_changes_detailed: the
\* squares looked at, those reported, and the models of the others updated
ScanSquares(d, squares_dict) ==
    LET squares_to_check == IF d.focus_squares # {} THEN d.focus_squares
                            ELSE DOMAIN squares_dict
        looked == {pos \in squares_to_check :
                      pos \in DOMAIN squares_dict /\ pos \in DOMAIN d.gaussian_models}
        changed == {pos \in looked :
                       zscore_exceeds(squares_dict[pos], d.gaussian_models[pos])}
    IN  Detected([d EXCEPT !.gaussian_models =
                     [pos \in DOMAIN d.gaussian_models |->
                         IF pos \in looked \ changed
                         THEN update_gaussian(d.gaussian_models[pos], squares_dict[pos])
                         ELSE d.gaussian_models[pos]]],
                 changed, FALSE)

\* detect_changes without its first test
detect_changes_NoCalibrationTest(d, inp) ==
    IF inp.none THEN Detected(d, {}, TRUE)
    ELSE ScanSquares(d, inp.squares_dict)

\* detect_changes(squares_dict); inp.none: the argument is None, which
\* the loop cannot read
detect_changes(d, inp) ==
    IF ~d.is_calibrated THEN Detected(d, {}, FALSE)
    ELSE IF inp.none THEN Detected(d, {}, TRUE)
    ELSE ScanSquares(d, inp.squares_dict)

\* detect_changes_detailed(squares_dict): a square all of whose pixels are
\* beyond the threshold is TOTAL, one with none is NENHUMA
detect_changes_detailed(d, inp) ==
    IF ~d.is_calibrated THEN Detected(d, {}, FALSE)
    ELSE IF inp.none THEN Detected(d, {}, TRUE)
    ELSE ScanSquares(d, inp.squares_dict)

set_focus_squares(d, squares_set) == [d EXCEPT !.focus_squares = squares_set]

clear_focus(d) == [d EXCEPT !.focus_squares = {}]

\* update_reference(pos, img): dict assignment, pos added when absent
update_reference(d, pos, img) ==
    [d EXCEPT !.gaussian_models =
                 [q \in DOMAIN d.gaussian_models \cup {pos} |->
                     IF q = pos THEN NewModel(img) ELSE d.gaussian_models[q]],
              !.reference_squares =
                 [q \in DOMAIN d.reference_squares \cup {pos} |->
                     IF q = pos THEN img ELSE d.reference_squares[q]]]

\* the record of a call: n counts the calls made so far
DetectorCall(n, op, d, keys, raised) ==
    [n |-> n, op |-> op, before |-> d, result |-> keys, raised |-> raised]

\* calls made on one detector
MaxDetectorCalls == 4

(***************************************************************************)
(* FEN texts: generate_fen (fen_generator.py) and detect_move              *)
(* (move_detector.py).  A text is a sequence of characters; a board matrix *)
(* is an 8x8 sequence of rows, row 1 being rank 8, whose cells hold a      *)
(* piece character or "" for an empty square.                              *)
(***************************************************************************)
\* Python's None where a text is expected
NONE == <<"None">>

\* str(n) for one digit
DigitChars == <<"1", "2", "3", "4", "5", "6", "7", "8", "9">>

\* one row of generate_fen: runs of empty cells become their length
RECURSIVE RowFen(_, _, _, _)
RowFen(row, i, empty_count, row_fen) ==
    IF i > Len(row)
    THEN IF empty_count > 0 THEN Append(row_fen, DigitChars[empty_count]) ELSE row_fen
    ELSE IF row[i] = ""
    THEN RowFen(row, i + 1, empty_count + 1, row_fen)
    ELSE RowFen(row, i + 1, 0,
                Append(IF empty_count > 0
                       THEN Append(row_fen, DigitChars[empty_count])
                       ELSE row_fen,
                       row[i]))

\* '/'.join(fen_rows)
RECURSIVE JoinRows(_, _)
JoinRows(fen_rows, i) ==
    IF i > Len(fen_rows) THEN <<>>
    ELSE IF i = Len(fen_rows) THEN fen_rows[i]
    ELSE fen_rows[i] \o <<"/">> \o JoinRows(fen_rows, i + 1)

\* generate_fen, from the matrix it builds out of board_map
generate_fen(matrix, current_turn) ==
    JoinRows([r \in 1..Len(matrix) |-> RowFen(matrix[r], 1, 0, <<>>)], 1)
        \o <<" ", current_turn, " ", "-", " ", "-", " ", "0", " ", "1">>

\* fen.split(' ')[0]
RECURSIVE BoardPart(_, _)
BoardPart(fen, i) ==
    IF i > Len(fen) \/ fen[i] = " " THEN <<>>
    ELSE <<fen[i]>> \o BoardPart(fen, i + 1)

\* [None] * n
Empties(n) == [k \in 1..n |-> ""]

\* parse_fen_grid: the rows of the board part, digits spread out
RECURSIVE ParseGrid(_, _, _, _)
ParseGrid(board_part, i, row_data, grid) ==
    IF i > Len(board_part) THEN Append(grid, row_data)
    ELSE IF board_part[i] = "/"
    THEN ParseGrid(board_part, i + 1, <<>>, Append(grid, row_data))
    ELSE IF IsIn(DigitChars, board_part[i])
    THEN ParseGrid(board_part, i + 1,
                   row_data \o Empties(IndexOf(DigitChars, board_part[i])), grid)
    ELSE ParseGrid(board_part, i + 1, Append(row_data, board_part[i]), grid)

parse_fen_grid(fen) == ParseGrid(BoardPart(fen, 1), 1, <<>>, <<>>)

\* get_algebraic(row, col), rows and columns counted from 0
get_algebraic(row, col) == <<FILE_NAMES[col + 1], RANK_NAMES[8 - row]>>

\* detect_move without the identity check of the piece
detect_move_AnyPiece(prev_fen, curr_fen) ==
    IF prev_fen \in {NONE, <<>>} \/ curr_fen \in {NONE, <<>>} THEN NONE
    ELSE
    LET grid_prev == parse_fen_grid(prev_fen)
        grid_curr == parse_fen_grid(curr_fen)
        cells == {rc \in (0..7) \X (0..7) :
                    grid_prev[rc[1] + 1][rc[2] + 1] # grid_curr[rc[1] + 1][rc[2] + 1]}
        old(rc) == grid_prev[rc[1] + 1][rc[2] + 1]
        new(rc) == grid_curr[rc[1] + 1][rc[2] + 1]
        src == {rc \in cells : old(rc) # "" /\ new(rc) = ""}
        dst == {rc \in cells : old(rc) = "" /\ new(rc) # ""}
    IN  IF Cardinality(cells) # 2 THEN NONE
        ELSE IF Cardinality(src) # 1 \/ Cardinality(dst) # 1 THEN NONE
        ELSE LET s == CHOOSE rc \in src : TRUE
                 d == CHOOSE rc \in dst : TRUE
             IN  get_algebraic(s[1], s[2]) \o get_algebraic(d[1], d[2])

\* detect_move(prev_fen, curr_fen): the differing cells in row-major order
\* (exactly two, or None), each a source (occupied, now empty), a
\* destination (empty, now occupied) or neither (None); two sources or two
\* destinations give None
detect_move(prev_fen, curr_fen) ==
    IF prev_fen \in {NONE, <<>>} \/ curr_fen \in {NONE, <<>>} THEN NONE
    ELSE
    LET grid_prev == parse_fen_grid(prev_fen)
        grid_curr == parse_fen_grid(curr_fen)
        cells == {rc \in (0..7) \X (0..7) :
                    grid_prev[rc[1] + 1][rc[2] + 1] # grid_curr[rc[1] + 1][rc[2] + 1]}
        old(rc) == grid_prev[rc[1] + 1][rc[2] + 1]
        new(rc) == grid_curr[rc[1] + 1][rc[2] + 1]
        src == {rc \in cells : old(rc) # "" /\ new(rc) = ""}
        dst == {rc \in cells : old(rc) = "" /\ new(rc) # ""}
    IN  IF Cardinality(cells) # 2 THEN NONE
        ELSE IF Cardinality(src) # 1 \/ Cardinality(dst) # 1 THEN NONE
        ELSE LET s == CHOOSE rc \in src : TRUE
                 d == CHOOSE rc \in dst : TRUE
             IN  IF old(s) # new(d) THEN NONE
                 ELSE get_algebraic(s[1], s[2]) \o get_algebraic(d[1], d[2])

\* the matrix of the starting position
StartMatrix ==
    <<<<"r", "n", "b", "q", "k", "b", "n", "r">>,
      <<"p", "p", "p", "p", "p", "p", "p", "p">>,
      Empties(8), Empties(8), Empties(8), Empties(8),
      <<"P", "P", "P", "P", "P", "P", "P", "P">>,
      <<"R", "N", "B", "Q", "K", "B", "N", "R">>>>

\* cells of the matrix a detection may get wrong or a move may change:
\* e2, e4, d5 as (row, column) counted from 0
ProbeCells == {<<6, 4>>, <<4, 4>>, <<3, 3>>}

ProbeSymbols == {"", "P", "p"}

\* the placements handed to generate_fen: what stands on the probe cells
CellMaps == [ProbeCells -> ProbeSymbols]

StartCells == [rc \in ProbeCells |-> StartMatrix[rc[1] + 1][rc[2] + 1]]

\* the starting position with the probe cells as given
MatrixWith(cells) ==
    [r \in 1..8 |-> [c \in 1..8 |->
        IF <<r - 1, c - 1>> \in ProbeCells THEN cells[<<r - 1, c - 1>>]
        ELSE StartMatrix[r][c]]]

NoMoveCall ==
    [called |-> FALSE, prev_cells |-> StartCells, curr_cells |-> StartCells,
     prev_fen |-> NONE, curr_fen |-> NONE, result |-> NONE]

(***************************************************************************)
(* StableMoveDetector (stable_move_detector.py).                           *)
(***************************************************************************)
\* stability_threshold values a detector is built with
Thresholds == {1, 3}

StableMoveDetectorInit(stability_threshold) ==
    [stability_threshold |-> stability_threshold, confirmed_fen |-> NONE,
     state |-> "IDLE", candidate_fen |-> NONE, candidate_count |-> 0]

Processed(d, move) == [detector |-> d, move |-> move]

\* 1. Initialization (first run)
process_first_run(d, current_fen) ==
    LET counted == IF current_fen = d.candidate_fen
                   THEN [d EXCEPT !.candidate_count = @ + 1]
                   ELSE [d EXCEPT !.candidate_fen = current_fen, !.candidate_count = 1]
    IN  IF counted.candidate_count >= d.stability_threshold
        THEN Processed([counted EXCEPT !.confirmed_fen = counted.candidate_fen,
                                       !.state = "IDLE"], NONE)
        ELSE Processed(counted, NONE)

\* the branches, with the threshold met one frame early
process_tracking_OneFrameEarly(d, current_fen) ==
    IF d.state = "IDLE"
    THEN IF current_fen # d.confirmed_fen
         THEN [d EXCEPT !.state = "TRANSITION", !.candidate_fen = current_fen,
                        !.candidate_count = 1]
         ELSE d
    ELSE IF d.state = "TRANSITION"
    THEN IF current_fen = d.candidate_fen
         THEN [d EXCEPT !.candidate_count = @ + 1,
                        !.state = IF d.candidate_count + 2 >= d.stability_threshold
                                  THEN "CONFIRMED" ELSE @]
         ELSE IF current_fen = d.confirmed_fen
         THEN [d EXCEPT !.state = "IDLE", !.candidate_fen = NONE, !.candidate_count = 0]
         ELSE [d EXCEPT !.candidate_fen = current_fen, !.candidate_count = 1]
    ELSE d

\* the IDLE and TRANSITION branches
process_tracking(d, current_fen) ==
    IF d.state = "IDLE"
    THEN IF current_fen # d.confirmed_fen
         THEN [d EXCEPT !.state = "TRANSITION", !.candidate_fen = current_fen,
                        !.candidate_count = 1]
         ELSE d
    ELSE IF d.state = "TRANSITION"
    THEN IF current_fen = d.candidate_fen
         THEN [d EXCEPT !.candidate_count = @ + 1,
                        !.state = IF d.candidate_count + 1 >= d.stability_threshold
                                  THEN "CONFIRMED" ELSE @]
         ELSE IF current_fen = d.confirmed_fen
         THEN [d EXCEPT !.state = "IDLE", !.candidate_fen = NONE, !.candidate_count = 0]
         ELSE [d EXCEPT !.candidate_fen = current_fen, !.candidate_count = 1]
    ELSE d

\* StableMoveDetector.process(current_fen)
smd_process(d, current_fen) ==
    IF current_fen = NONE THEN Processed(d, NONE)
    ELSE IF d.confirmed_fen = NONE THEN process_first_run(d, current_fen)
    ELSE LET t == process_tracking(d, current_fen)
         IN  IF t.state = "CONFIRMED"
             THEN Processed([t EXCEPT !.confirmed_fen = t.candidate_fen, !.state = "IDLE",
                                      !.candidate_fen = NONE, !.candidate_count = 0],
                            IF t.candidate_fen # t.confirmed_fen
                            THEN detect_move(t.confirmed_fen, t.candidate_fen) ELSE NONE)
             ELSE Processed(t, NONE)

\* the frames a detector is fed: the start, a pawn seen on e4 while e2 is
\* still occupied, the position after e2e4, and that position with a pawn
\* seen on d5
StableCells ==
    {StartCells,
     [StartCells EXCEPT ![<<4, 4>>] = "P"],
     [StartCells EXCEPT ![<<6, 4>>] = "", ![<<4, 4>>] = "P"],
     [StartCells EXCEPT ![<<6, 4>>] = "", ![<<4, 4>>] = "P", ![<<3, 3>>] = "p"]}

StableFens == {generate_fen(MatrixWith(cells), "w") : cells \in StableCells}

\* runs longer than this are not told apart
MaxRun == 4

NoRuns == [run_fen |-> NONE, run_len |-> 0, seen_fen |-> NONE, seen_len |-> 0]

\* the run of equal frames ending with current_fen: counted over all the
\* frames passed to process (run_*), and over those that are not None
\* (seen_*)
RunsAfter(h, current_fen) ==
    LET more(n) == IF n < MaxRun THEN n + 1 ELSE n
    IN  [run_fen |-> current_fen,
         run_len |-> IF current_fen = h.run_fen THEN more(h.run_len) ELSE 1,
         seen_fen |-> IF current_fen = NONE THEN h.seen_fen ELSE current_fen,
         seen_len |-> IF current_fen = NONE THEN h.seen_len
                      ELSE IF current_fen = h.seen_fen THEN more(h.seen_len) ELSE 1]

StableCall(op, d, current_fen, move) ==
    [op |-> op, before |-> d, current_fen |-> current_fen, move |-> move]

(***************************************************************************)
(* Initial values of the groups of variables.                              *)
(***************************************************************************)
NoResult == [move |-> None, status |-> ""]

GameInit ==
    /\ board = StartBoard
    /\ gs_call = NoCall(StartBoard, "init")
    /\ gs_result = NoResult

NoNoiseCall(h, op) ==
    [op |-> op, changed |-> {}, before |-> h,
     result |-> NoiseData(h.state, "", {}, {}, NoSquare, FALSE)]

NoHistory ==
    [run_set |-> {}, run_len |-> 0, quiet_armed |-> FALSE, quiet_len |-> 0,
     empty_len |-> 0]

NoiseInit ==
    /\ noise = NoiseHandlerInit
    /\ nh_call = NoNoiseCall(NoiseHandlerInit, "init")
    /\ nh_hist = NoHistory

SessionInit ==
    /\ sess = LichessSessionInit
    /\ board_lock = "free"
    /\ frame = FrameIdle
    /\ listener = ListenerIdle
    /\ relay = RelayInit
    /\ ss_obs = NoDetection
    /\ clock = MOVE_COOLDOWN + 1

(***************************************************************************)
(* The GameState machine: Init is GameState(), the actions are its public  *)
(* operations.                                                             *)
(***************************************************************************)
DetectorInit ==
    /\ detector = ChangeDetectorInit
    /\ cd_call = DetectorCall(0, "init", ChangeDetectorInit, {}, FALSE)

MoveDetectorInit ==
    /\ md_call = NoMoveCall

\* StableMoveDetector() with the threshold of the tests
StableInit ==
    /\ smd = StableMoveDetectorInit(3)
    /\ smd_call = StableCall("init", StableMoveDetectorInit(3), NONE, NONE)
    /\ smd_hist = NoRuns

ScanInit ==
    /\ scan = SmartScanInit

Init ==
    /\ GameInit
    /\ NoiseInit
    /\ SessionInit
    /\ DetectorInit
    /\ MoveDetectorInit
    /\ StableInit
    /\ ScanInit

Reset ==
    /\ board' = StartBoard
    /\ gs_call' = NoCall(StartBoard, "reset")
    /\ gs_result' = NoResult
    /\ UNCHANGED <<noiseVars, sessionVars, componentVars>>

SetFen ==
    /\ \E fen \in Fens :
        /\ board' = ParseFen(fen)
        /\ gs_call' = NoCall(ParseFen(fen), "set_fen")
        /\ gs_result' = NoResult
    /\ UNCHANGED <<noiseVars, sessionVars, componentVars>>

\* one call of process_occupancy_change, on the snapshot of a legal move
\* played physically or on the expected occupancy with some squares flipped
ProcessOccupancyChange ==
    /\ Len(board.move_stack) < MaxPly
    /\ \E legal \in {legal_moves(board)}, occ \in {get_board_occupancy(board)} :
         \E inp \in {[vision |-> PhysicalSnapshot(board, m), played |-> m] : m \in legal}
                    \cup {[vision |-> Toggle(occ, T), played |-> None] : T \in ToggleSets} :
           \E out \in process_occupancy_change(board, legal, inp.vision) :
             /\ board' = IF IsMove(out.pushed) THEN push(board, out.pushed) ELSE board
             /\ gs_call' = [op |-> "process", vision |-> inp.vision,
                            played |-> inp.played, before |-> board]
             /\ gs_result' = [move |-> out.move, status |-> out.status]
    /\ UNCHANGED <<noiseVars, sessionVars, componentVars>>

Next ==
    \/ Reset
    \/ SetFen
    \/ ProcessOccupancyChange

Spec == Init /\ [][Next]_vars

(***************************************************************************)
(* The NoiseHandler machine: one call of process or reset per step.        *)
(***************************************************************************)
\* the squares a frame may report as changed: e2, e4, d5, f5
NoiseSquares == {<<4, 1>>, <<4, 3>>, <<3, 4>>, <<5, 4>>}

\* the counts of consecutive calls after process(changed_squares) on h;
\* empty_len: the calls with an empty set that end the sequence, counted up
\* to COOLDOWN_FRAMES
HistoryAfter(hist, h, changed_squares) ==
    LET n == Cardinality(changed_squares)
        run == IF n = 0 \/ n > NOISE_THRESHOLD THEN 0
               ELSE IF h.state = "IDLE" THEN 1
               ELSE IF hist.run_len > 0 /\ changed_squares = hist.run_set
               THEN hist.run_len + 1
               ELSE 0
        armed == IF n > NOISE_THRESHOLD THEN TRUE
                 ELSE n = 0 /\ hist.quiet_armed /\ hist.quiet_len < COOLDOWN_FRAMES
        quiet == IF armed /\ n = 0 THEN hist.quiet_len + 1 ELSE 0
    IN  [run_set |-> IF run > 0 THEN changed_squares ELSE {}, run_len |-> run,
         quiet_armed |-> armed, quiet_len |-> quiet,
         empty_len |-> IF n # 0 THEN 0
                       ELSE IF hist.empty_len < COOLDOWN_FRAMES THEN hist.empty_len + 1
                       ELSE hist.empty_len]

NoiseProcess ==
    /\ noise.stable_count < MaxStableCount
    /\ \E changed_squares \in SUBSET NoiseSquares :
         LET r == noise_process(noise, changed_squares)
         IN  /\ noise' = r.handler
             /\ nh_call' = [op |-> "process", changed |-> changed_squares,
                            before |-> noise, result |-> r.result]
             /\ nh_hist' = HistoryAfter(nh_hist, noise, changed_squares)
    /\ UNCHANGED <<gameVars, sessionVars, componentVars>>

NoiseReset ==
    /\ noise' = NoiseHandlerInit
    /\ nh_call' = NoNoiseCall(NoiseHandlerInit, "reset")
    /\ nh_hist' = NoHistory
    /\ UNCHANGED <<gameVars, sessionVars, componentVars>>

NextNoise ==
    \/ NoiseProcess
    \/ NoiseReset

SpecNoise == Init /\ [][NextNoise]_vars

(***************************************************************************)
(* The LichessSession machine: the frame loop (GameSession.on_frame and    *)
(* its helpers), the stream thread (LichessSession._stream_task and        *)
(* _sync_moves) and the relay.  A step is a piece of code that does not    *)
(* give the other thread a chance to act on what it shares: code under     *)
(* board_lock runs to the next call that leaves the process (make_move),   *)
(* code outside the lock runs to its next read of the board.  A frame ends *)
(* with _draw_interface, which reads the board under board_lock and        *)
(* changes nothing of the state kept here; it is part of the frame's last  *)
(* step.                                                                   *)
(***************************************************************************)
\* what detect_all_pieces gives for a frame: the pieces of a snapshot
\* standing still, or a hand over the board (nothing recognised, more than
\* NOISE_THRESHOLD squares changing)
FrameInputs ==
    {[vision_occupied |-> occ, visual_changes |-> {}] : occ \in Snapshots}
        \cup {[vision_occupied |-> {}, visual_changes |-> NoiseSquares]}

\* the plies already played in the game the session joins
InitialPlies == {0, MaxRemote}

recordVars == <<gs_call, gs_result, nh_call, nh_hist>>

\* connect_and_setup: a game is chosen and the stream thread is started; the
\* stream opens with a gameFull event carrying the moves played so far
ConnectAndSetup ==
    /\ ~relay.game_id
    /\ \E k \in InitialPlies :
         relay' = [game_id |-> TRUE, moves |-> MovesText(k), board |-> BoardAfter(k),
                   stream |-> <<[type |-> "gameFull", moves |-> MovesText(k),
                                 status |-> "started"]>>,
                   my_color |-> "", closed |-> FALSE, color |-> MY_COLOR]
    /\ UNCHANGED <<gameVars, noiseVars, sess, board_lock, frame, listener, ss_obs>>
    /\ UNCHANGED <<clock, componentVars>>

\* the opponent moves on the server: one more gameState event
OpponentMoves ==
    /\ relay.game_id
    /\ LET n == Len(relay.board.move_stack)
       IN  /\ n < MaxRemote
           /\ n < Len(GameLine)
           /\ relay.board.turn # (MY_COLOR = "white")
           /\ is_legal(relay.board, from_uci(GameLine[n + 1]))
           /\ relay' = RelayAfter(relay, GameLine[n + 1])
    /\ UNCHANGED <<gameVars, noiseVars, sess, board_lock, frame, listener, ss_obs>>
    /\ UNCHANGED <<clock, componentVars>>

\* _stream_task takes the next event (stop_event not set, the game going
\* on) and calls _sync_moves, which returns at once when the list is the one
\* it already has
StreamTask ==
    /\ listener.pc = "idle"
    /\ relay.stream # <<>>
    /\ ~sess.stop_event
    /\ Head(relay.stream).status = "started"
    /\ LET event == Head(relay.stream)
       IN  /\ relay' = [relay EXCEPT !.stream = Tail(@),
                                     !.my_color = IF event.type = "gameFull"
                                                  THEN relay.color ELSE @]
           /\ IF event.moves = sess.last_lichess_moves
              THEN /\ listener' = ListenerIdle
                   /\ ss_obs' = [ss_obs EXCEPT !.sync_exit = "same"]
              ELSE /\ listener' = [pc |-> "lock", moves_str |-> event.moves, i |-> 1]
                   /\ UNCHANGED ss_obs
    /\ UNCHANGED <<gameVars, noiseVars, sess, board_lock, frame>>
    /\ UNCHANGED <<clock, componentVars>>

SyncAcquire_IgnoresLock ==
    /\ listener.pc = "lock"
    /\ IF listener.moves_str = sess.last_lichess_moves
       THEN /\ listener' = ListenerIdle
            /\ ss_obs' = [ss_obs EXCEPT !.sync_exit = "recheck"]
            /\ UNCHANGED <<board, board_lock>>
       ELSE /\ board' = StartBoard
            /\ board_lock' = "listener"
            /\ listener' = [listener EXCEPT !.pc = "replay"]
            /\ UNCHANGED ss_obs
    /\ UNCHANGED <<gs_call, gs_result, noiseVars, sess, frame, relay>>
    /\ UNCHANGED <<clock, componentVars>>

\* _sync_moves takes board_lock, compares again and resets the board
SyncAcquire ==
    /\ listener.pc = "lock"
    /\ board_lock = "free"
    /\ IF listener.moves_str = sess.last_lichess_moves
       THEN /\ listener' = ListenerIdle
            /\ ss_obs' = [ss_obs EXCEPT !.sync_exit = "recheck"]
            /\ UNCHANGED <<board, board_lock>>
       ELSE /\ board' = StartBoard
            /\ board_lock' = "listener"
            /\ listener' = [listener EXCEPT !.pc = "replay"]
            /\ UNCHANGED ss_obs
    /\ UNCHANGED <<gs_call, gs_result, noiseVars, sess, frame, relay>>
    /\ UNCHANGED <<clock, componentVars>>

\* one push_uci of the replay
SyncReplay ==
    /\ listener.pc = "replay"
    /\ \E words \in {split(listener.moves_str)} :
         /\ listener.i <= Len(words)
         /\ board' = push_uci(board, words[listener.i])
         /\ listener' = [listener EXCEPT !.i = @ + 1]
    /\ UNCHANGED <<gs_call, gs_result, noiseVars, sess, board_lock, frame, relay, ss_obs>>
    /\ UNCHANGED <<clock, componentVars>>

\* the end of _sync_moves: the list is recorded, the turn is worked out and
\* the lock is released
SyncFinish ==
    /\ listener.pc = "replay"
    /\ listener.i > Len(split(listener.moves_str))
    /\ sess' = [sess EXCEPT
                  !.last_lichess_moves = listener.moves_str,
                  !.waiting_for_opponent = ~is_my_turn(relay.my_color, listener.moves_str)]
    /\ board_lock' = "free"
    /\ listener' = ListenerIdle
    /\ ss_obs' = [ss_obs EXCEPT !.sync_exit = "replayed"]
    /\ UNCHANGED <<gameVars, noiseVars, frame, relay>>
    /\ UNCHANGED <<clock, componentVars>>

\* on_frame up to the noise handler: the smart scan reads the board under
\* board_lock except on the frames of the full scan, the detector gives the
\* occupancy and the visual changes, the noise handler is stepped
OnFrame ==
    /\ relay.game_id
    /\ frame.pc = "idle"
    /\ sess.stable_count < MaxStableFrames
    /\ \E full_scan \in BOOLEAN : full_scan \/ board_lock = "free"
    /\ \E detected \in FrameInputs :
         LET r == noise_process(noise, detected.visual_changes)
         IN  /\ noise' = r.handler
             /\ frame' = [FrameIdle EXCEPT !.pc = "radar",
                                           !.vision_occupied = detected.vision_occupied,
                                           !.noise_state = r.result.state,
                                           !.noise_stable = r.result.stable]
             /\ sess' = [sess EXCEPT !.status = IF r.result.state = "NOISE_ACTIVE"
                                                THEN "WAITING" ELSE "PROCESSING"]
    /\ UNCHANGED <<board, recordVars, board_lock, listener, relay, ss_obs>>
    /\ UNCHANGED <<clock, componentVars>>

\* _update_radar_ui: the expected occupancy is read from the board
RadarOccupancy ==
    /\ frame.pc = "radar"
    /\ LET expected_occupied == get_board_occupancy(board)
           lifted_squares == expected_occupied \ frame.vision_occupied
           one == Cardinality(lifted_squares) = 1
       IN  /\ sess' = [sess EXCEPT !.lifted_piece_square = NoSquare,
                                   !.current_radar_destinations = {}]
           /\ frame' = [frame EXCEPT
                          !.pc = IF one THEN "radar_piece" ELSE "stable",
                          !.lifted = IF one THEN OnlySquare(lifted_squares) ELSE NoSquare,
                          !.mid_replay_read = MidReplay(listener)]
    /\ UNCHANGED <<gameVars, noiseVars, board_lock, listener, relay, ss_obs>>
    /\ UNCHANGED <<clock, componentVars>>

\* _update_radar_ui: the lifted piece and the side to move are read
RadarPiece ==
    /\ frame.pc = "radar_piece"
    /\ LET sq_idx == square(frame.lifted[1], frame.lifted[2])
           piece == board.pieces[sq_idx]
           mine == piece # NoPiece /\ piece_color(piece) = board.turn
       IN  /\ sess' = IF mine
                      THEN [sess EXCEPT !.lifted_piece_square = frame.lifted]
                      ELSE sess
           /\ frame' = [frame EXCEPT !.pc = IF mine THEN "radar_moves" ELSE "stable",
                                     !.mid_replay_read = MidReplay(listener)]
    /\ UNCHANGED <<gameVars, noiseVars, board_lock, listener, relay, ss_obs>>
    /\ UNCHANGED <<clock, componentVars>>

\* _update_radar_ui: the legal moves of the lifted piece are read
RadarMoves ==
    /\ frame.pc = "radar_moves"
    /\ LET sq_idx == square(frame.lifted[1], frame.lifted[2])
       IN  sess' = [sess EXCEPT !.current_radar_destinations =
                       {SquareTuple(m.to_square) :
                           m \in legal_moves_from(board, sq_idx)}]
    /\ frame' = [frame EXCEPT !.pc = "stable", !.mid_replay_read = MidReplay(listener)]
    /\ UNCHANGED <<gameVars, noiseVars, board_lock, listener, relay, ss_obs>>
    /\ UNCHANGED <<clock, componentVars>>

ProcessStableMove_IgnoresTurn ==
    /\ frame.pc = "stable"
    /\ board_lock = "free"
    /\ \E elapsed \in BOOLEAN, expected_occupied \in {get_board_occupancy(board)} :
         LET vision_occupied == frame.vision_occupied
             diff_missing == expected_occupied \ vision_occupied
             diff_extra == vision_occupied \ expected_occupied
             total_diff == Cardinality(diff_missing) + Cardinality(diff_extra)
             counted == StabilityAfter(sess, total_diff, vision_occupied)
             cooldown_ok == sess.last_move_time = 0 \/ elapsed
             ready == /\ counted.stable_count >= STABILITY_REQUIRED
                      /\ cooldown_ok
                      /\ frame.noise_state # "NOISE_ACTIVE"
         IN  /\ sess' = counted
             /\ \E detected_move \in
                    {IF ready
                     THEN infer_move(board, diff_missing, diff_extra, vision_occupied)
                     ELSE None} :
                  IF IsMove(detected_move)
                  THEN /\ frame' = [frame EXCEPT !.pc = "sending",
                                                 !.detected_move = detected_move,
                                                 !.mid_replay_read = FALSE]
                       /\ board_lock' = "frame"
                       /\ ss_obs' = [ss_obs EXCEPT
                                       !.before = board,
                                       !.last_before = sess.last_lichess_moves,
                                       !.sent = detected_move,
                                       !.send = "asked"]
                  ELSE /\ frame' = [FrameIdle EXCEPT !.detected_move = detected_move]
                       /\ UNCHANGED <<board_lock, ss_obs>>
    /\ UNCHANGED <<gameVars, noiseVars, listener, relay>>
    /\ UNCHANGED <<clock, componentVars>>

\* _process_stable_move from taking board_lock to the call of make_move:
\* stability bookkeeping, cooldown, _infer_move, and on_move_detected's test
\* of waiting_for_opponent.  elapsed says whether more than MOVE_COOLDOWN
\* has passed since last_move_time.
ProcessStableMove ==
    /\ frame.pc = "stable"
    /\ board_lock = "free"
    /\ \E elapsed \in BOOLEAN, expected_occupied \in {get_board_occupancy(board)} :
         LET vision_occupied == frame.vision_occupied
             diff_missing == expected_occupied \ vision_occupied
             diff_extra == vision_occupied \ expected_occupied
             total_diff == Cardinality(diff_missing) + Cardinality(diff_extra)
             counted == StabilityAfter(sess, total_diff, vision_occupied)
             cooldown_ok == sess.last_move_time = 0 \/ elapsed
             ready == /\ counted.stable_count >= STABILITY_REQUIRED
                      /\ cooldown_ok
                      /\ frame.noise_state # "NOISE_ACTIVE"
         IN  /\ sess' = counted
             /\ \E detected_move \in
                    {IF ready
                     THEN infer_move(board, diff_missing, diff_extra, vision_occupied)
                     ELSE None} :
                  IF IsMove(detected_move) /\ ~sess.waiting_for_opponent
                  THEN /\ frame' = [frame EXCEPT !.pc = "sending",
                                                 !.detected_move = detected_move,
                                                 !.mid_replay_read = FALSE]
                       /\ board_lock' = "frame"
                       /\ ss_obs' = [ss_obs EXCEPT
                                       !.before = board,
                                       !.last_before = sess.last_lichess_moves,
                                       !.sent = detected_move,
                                       !.send = "asked"]
                  ELSE /\ frame' = [FrameIdle EXCEPT !.detected_move = detected_move]
                       /\ UNCHANGED <<board_lock, ss_obs>>
    /\ UNCHANGED <<gameVars, noiseVars, listener, relay>>
    /\ UNCHANGED <<clock, componentVars>>

\* on_move_detected calls make_move, board_lock still held: the server
\* accepts the move, or the move is rejected or not transmitted
MakeMove ==
    /\ frame.pc = "sending"
    /\ \E uci_move \in {uci(frame.detected_move)} :
         \/ /\ ServerAccepts(relay, uci_move)
            /\ relay' = RelayAfter(relay, uci_move)
            /\ frame' = [frame EXCEPT !.pc = "sent"]
            /\ ss_obs' = [ss_obs EXCEPT !.send = "accepted"]
            /\ UNCHANGED board_lock
         \/ /\ frame' = FrameIdle
            /\ ss_obs' = [ss_obs EXCEPT !.send = "rejected"]
            /\ board_lock' = "free"
            /\ UNCHANGED relay
    /\ UNCHANGED <<gameVars, noiseVars, sess, listener>>
    /\ UNCHANGED <<clock, componentVars>>

\* make_move returned True: on_move_detected records the move, and
\* _process_stable_move checks it once more, pushes it and releases the lock
OnMoveAccepted ==
    /\ frame.pc = "sent"
    /\ \E detected_move \in {frame.detected_move} :
         \E still_legal \in {is_legal(board, detected_move)} :
           /\ board' = IF still_legal THEN push(board, detected_move) ELSE board
           /\ sess' = [sess EXCEPT
                         !.waiting_for_opponent = TRUE,
                         !.last_lichess_moves = AppendMove(@, uci(detected_move)),
                         !.last_move_time = IF still_legal THEN 1 ELSE @,
                         !.reference_squares = IF still_legal
                                               THEN frame.vision_occupied ELSE @,
                         !.stable_count = IF still_legal THEN 0 ELSE @]
           /\ noise' = IF still_legal THEN NoiseHandlerInit ELSE noise
    /\ board_lock' = "free"
    /\ frame' = FrameIdle
    /\ UNCHANGED <<recordVars, listener, relay, ss_obs>>
    /\ UNCHANGED <<clock, componentVars>>

NextSession ==
    \/ ConnectAndSetup
    \/ OpponentMoves
    \/ StreamTask
    \/ SyncAcquire
    \/ SyncReplay
    \/ SyncFinish
    \/ OnFrame
    \/ RadarOccupancy
    \/ RadarPiece
    \/ RadarMoves
    \/ ProcessStableMove
    \/ MakeMove
    \/ OnMoveAccepted

SpecSession == Init /\ [][NextSession]_vars

(***************************************************************************)
(* The smart scan of GameSession.on_frame: the frame counter and the       *)
(* squares handed to detect_all_pieces, on the boards the game can be on.  *)
(***************************************************************************)
\* a move has been committed to the board
ScanPush ==
    /\ Len(board.move_stack) < MaxScanPly
    /\ \E m \in legal_moves(board) : board' = push(board, m)
    /\ UNCHANGED <<gs_call, gs_result, noiseVars, sessionVars, componentVars>>

\* on_frame up to detect_all_pieces: frame_count is advanced, or set back
\* to 0 when a second has passed, and squares_to_check is built unless the
\* frame is one of the full scan
SmartScan ==
    /\ scan.frame_count < MaxFrameCount
    /\ \E second_passed \in BOOLEAN :
         LET n == IF second_passed THEN 0 ELSE scan.frame_count + 1
             full == n % FULL_SCAN_PERIOD = 0
         IN  scan' = [frame_count |-> n, called |-> TRUE, full_scan |-> full,
                      squares_to_check |-> IF full THEN {} ELSE smart_squares_to_check(board)]
    /\ UNCHANGED <<gameVars, noiseVars, sessionVars, detectorVars, moveVars, stableVars>>

NextScan ==
    \/ ScanPush
    \/ SmartScan

SpecScan == Init /\ [][NextScan]_vars

(***************************************************************************)
(* The stream thread of LichessSession and the stop signal: the listener   *)
(* of the machine above, the relay, on_exit and the end of the game.  The  *)
(* thread is scheduled fairly; nothing obliges the relay to send an event. *)
(***************************************************************************)
\* the plies already played in the game whose stream is listened to
StreamPlies == 0..MaxRemote

\* connect_and_setup, the game joined after any number of plies, the
\* account playing either colour
StreamOpen ==
    /\ ~relay.game_id
    /\ \E k \in StreamPlies, color \in {"white", "black"} :
         relay' = [game_id |-> TRUE, moves |-> MovesText(k), board |-> BoardAfter(k),
                   stream |-> <<[type |-> "gameFull", moves |-> MovesText(k),
                                 status |-> "started"]>>,
                   my_color |-> "", closed |-> FALSE, color |-> color]
    /\ UNCHANGED <<gameVars, noiseVars, sess, board_lock, frame, listener, ss_obs>>
    /\ UNCHANGED <<clock, componentVars>>

\* a move is played on the server by either side: one more gameState event
RemoteMove ==
    /\ relay.game_id
    /\ ~relay.closed
    /\ LET n == Len(relay.board.move_stack)
       IN  /\ n < MaxRemote
           /\ n < Len(GameLine)
           /\ relay' = RelayAfter(relay, GameLine[n + 1])
    /\ UNCHANGED <<gameVars, noiseVars, sess, board_lock, frame, listener, ss_obs>>
    /\ UNCHANGED <<clock, componentVars>>

\* the game ends on the server: a last gameState event whose status is not
\* "started", and the stream is closed
GameEnds ==
    /\ relay.game_id
    /\ ~relay.closed
    /\ relay' = [relay EXCEPT
                   !.stream = Append(@, [type |-> "gameState", moves |-> relay.moves,
                                         status |-> "resign"]),
                   !.closed = TRUE]
    /\ UNCHANGED <<gameVars, noiseVars, sess, board_lock, frame, listener, ss_obs>>
    /\ UNCHANGED <<clock, componentVars>>

\* on_exit: the stop signal is set
OnExit ==
    /\ relay.game_id
    /\ ~sess.stop_event
    /\ sess' = [sess EXCEPT !.stop_event = TRUE]
    /\ UNCHANGED <<gameVars, noiseVars, board_lock, frame, listener, relay, ss_obs>>
    /\ UNCHANGED <<clock, componentVars>>

\* _stream_task is given an event and finds stop_event set: break
StreamBreak ==
    /\ listener.pc = "idle"
    /\ relay.stream # <<>>
    /\ sess.stop_event
    /\ relay' = [relay EXCEPT !.stream = Tail(@)]
    /\ listener' = [listener EXCEPT !.pc = "done"]
    /\ UNCHANGED <<gameVars, noiseVars, sess, board_lock, frame, ss_obs>>
    /\ UNCHANGED <<clock, componentVars>>

\* _stream_task is given a gameState event whose status is not "started":
\* it sets stop_event and goes back to waiting for the next event
StreamGameOver ==
    /\ listener.pc = "idle"
    /\ relay.stream # <<>>
    /\ ~sess.stop_event
    /\ Head(relay.stream).type = "gameState"
    /\ Head(relay.stream).status # "started"
    /\ relay' = [relay EXCEPT !.stream = Tail(@)]
    /\ sess' = [sess EXCEPT !.stop_event = TRUE]
    /\ UNCHANGED <<gameVars, noiseVars, board_lock, frame, listener, ss_obs>>
    /\ UNCHANGED <<clock, componentVars>>

\* stream_game's iter_lines ends (the server has closed the stream and every
\* event has been taken): the for loop of _stream_task is over
StreamClosed ==
    /\ listener.pc = "idle"
    /\ relay.stream = <<>>
    /\ relay.closed
    /\ listener' = [listener EXCEPT !.pc = "done"]
    /\ UNCHANGED <<gameVars, noiseVars, sess, board_lock, frame, relay, ss_obs>>
    /\ UNCHANGED <<clock, componentVars>>

ListenerStep ==
    \/ StreamTask
    \/ SyncAcquire
    \/ SyncReplay
    \/ SyncFinish
    \/ StreamBreak
    \/ StreamGameOver
    \/ StreamClosed

NextStream ==
    \/ StreamOpen
    \/ RemoteMove
    \/ GameEnds
    \/ OnExit
    \/ StreamTask
    \/ SyncAcquire
    \/ SyncReplay
    \/ SyncFinish
    \/ StreamBreak
    \/ StreamGameOver
    \/ StreamClosed

SpecStream == Init /\ [][NextStream]_vars /\ WF_vars(ListenerStep)

(***************************************************************************)
(* The machine of play_lichess.py: LichessGame with its stream thread and  *)
(* the main loop, which reads and writes the board outside turn_lock.      *)
(* board_lock stands for turn_lock here.                                   *)
(***************************************************************************)
\* main up to the loop: a game is chosen and the stream thread is started
PlayStart ==
    /\ ~relay.game_id
    /\ \E k \in InitialPlies :
         relay' = [game_id |-> TRUE, moves |-> MovesText(k), board |-> BoardAfter(k),
                   stream |-> <<[type |-> "gameFull", moves |-> MovesText(k),
                                 status |-> "started"]>>,
                   my_color |-> "", closed |-> FALSE, color |-> MY_COLOR]
    /\ UNCHANGED <<gameVars, noiseVars, sess, board_lock, frame, listener, ss_obs>>
    /\ UNCHANGED <<clock, componentVars>>

\* stream_thread takes the next event and calls _sync_moves, which returns
\* at once when the list is the one it already has
PlayStreamThread ==
    /\ listener.pc = "idle"
    /\ relay.stream # <<>>
    /\ LET event == Head(relay.stream)
       IN  /\ relay' = [relay EXCEPT !.stream = Tail(@),
                                     !.my_color = IF event.type = "gameFull"
                                                  THEN MY_COLOR ELSE @]
           /\ IF event.moves = sess.last_lichess_moves
              THEN /\ listener' = ListenerIdle
                   /\ ss_obs' = [ss_obs EXCEPT !.sync_exit = "same"]
              ELSE /\ listener' = [pc |-> "lock", moves_str |-> event.moves, i |-> 1]
                   /\ UNCHANGED ss_obs
    /\ UNCHANGED <<gameVars, noiseVars, sess, board_lock, frame>>
    /\ UNCHANGED <<clock, componentVars>>

\* _sync_moves takes turn_lock and resets the board
PlaySyncAcquire ==
    /\ listener.pc = "lock"
    /\ board_lock = "free"
    /\ board' = StartBoard
    /\ board_lock' = "listener"
    /\ listener' = [listener EXCEPT !.pc = "replay"]
    /\ UNCHANGED <<gs_call, gs_result, noiseVars, sess, frame, relay, ss_obs>>
    /\ UNCHANGED <<clock, componentVars>>

\* one move of the replay, pushed when it is legal
PlaySyncReplay ==
    /\ listener.pc = "replay"
    /\ \E words \in {split(listener.moves_str)} :
         /\ listener.i <= Len(words)
         /\ \E move \in {from_uci(words[listener.i])} :
              board' = IF is_legal(board, move) THEN push(board, move) ELSE board
         /\ listener' = [listener EXCEPT !.i = @ + 1]
    /\ UNCHANGED <<gs_call, gs_result, noiseVars, sess, board_lock, frame, relay, ss_obs>>
    /\ UNCHANGED <<clock, componentVars>>

\* the end of _sync_moves
PlaySyncFinish ==
    /\ listener.pc = "replay"
    /\ listener.i > Len(split(listener.moves_str))
    /\ sess' = [sess EXCEPT
                  !.last_lichess_moves = listener.moves_str,
                  !.waiting_for_opponent = ~is_my_turn(relay.my_color, listener.moves_str)]
    /\ board_lock' = "free"
    /\ listener' = ListenerIdle
    /\ ss_obs' = [ss_obs EXCEPT !.sync_exit = "replayed"]
    /\ UNCHANGED <<gameVars, noiseVars, frame, relay>>
    /\ UNCHANGED <<clock, componentVars>>

\* the loop from cap.read() to the drawing: detection, noise handler; the
\* smart scan and the lifted-piece highlight read the board into locals
\* that are only drawn
PlayFrame ==
    /\ relay.game_id
    /\ frame.pc = "idle"
    /\ sess.stable_count < MaxStableFrames
    /\ \E detected \in FrameInputs :
         LET r == noise_process(noise, detected.visual_changes)
         IN  /\ noise' = r.handler
             /\ frame' = [FrameIdle EXCEPT !.pc = "play_occupancy",
                                           !.vision_occupied = detected.vision_occupied,
                                           !.noise_state = r.result.state]
    /\ UNCHANGED <<board, recordVars, sess, board_lock, listener, relay, ss_obs>>
    /\ UNCHANGED <<clock, componentVars>>

\* the expected occupancy is read from the board, the stability is counted
\* and the cooldown is worked out
PlayOccupancy ==
    /\ frame.pc = "play_occupancy"
    /\ \E elapsed \in BOOLEAN, expected_occupied \in {get_board_occupancy(board)} :
         LET vision_occupied == frame.vision_occupied
             diff_missing == expected_occupied \ vision_occupied
             diff_extra == vision_occupied \ expected_occupied
             total_diff == Cardinality(diff_missing) + Cardinality(diff_extra)
         IN  /\ sess' = StabilityAfter(sess, total_diff, vision_occupied)
             /\ frame' = [frame EXCEPT !.pc = "play_infer",
                                       !.expected_occupied = expected_occupied,
                                       !.cooldown_ok = sess.last_move_time = 0 \/ elapsed]
    /\ UNCHANGED <<gameVars, noiseVars, board_lock, listener, relay, ss_obs>>
    /\ UNCHANGED <<clock, componentVars>>

\* the move is inferred from the differences and the board's legal moves
PlayInfer ==
    /\ frame.pc = "play_infer"
    /\ LET vision_occupied == frame.vision_occupied
           diff_missing == frame.expected_occupied \ vision_occupied
           diff_extra == vision_occupied \ frame.expected_occupied
           ready == /\ sess.stable_count >= STABILITY_REQUIRED
                    /\ frame.cooldown_ok
                    /\ ~sess.waiting_for_opponent
                    /\ frame.noise_state # "NOISE_ACTIVE"
       IN  \E detected_move \in
               {IF ready
                THEN infer_move(board, diff_missing, diff_extra, vision_occupied)
                ELSE None} :
             IF IsMove(detected_move)
             THEN /\ frame' = [frame EXCEPT !.pc = "play_push",
                                            !.detected_move = detected_move]
                  /\ ss_obs' = [ss_obs EXCEPT
                                  !.before = board,
                                  !.last_before = sess.last_lichess_moves,
                                  !.sent = detected_move,
                                  !.send = "asked"]
             ELSE /\ frame' = FrameIdle
                  /\ UNCHANGED ss_obs
    /\ UNCHANGED <<gameVars, noiseVars, sess, board_lock, listener, relay>>
    /\ UNCHANGED <<clock, componentVars>>

\* game.game.board.push(detected_move)
PlayPush ==
    /\ frame.pc = "play_push"
    /\ board' = push(board, frame.detected_move)
    /\ frame' = [frame EXCEPT !.pc = "play_send"]
    /\ UNCHANGED <<gs_call, gs_result, noiseVars, sess, board_lock, listener, relay, ss_obs>>
    /\ UNCHANGED <<clock, componentVars>>

\* send_move_to_lichess: not the account's turn, or on to make_move
PlaySend ==
    /\ frame.pc = "play_send"
    /\ IF sess.waiting_for_opponent
       THEN /\ frame' = [frame EXCEPT !.pc = "play_pop"]
            /\ ss_obs' = [ss_obs EXCEPT !.send = "not_my_turn"]
       ELSE /\ frame' = [frame EXCEPT !.pc = "play_make_move"]
            /\ UNCHANGED ss_obs
    /\ UNCHANGED <<gameVars, noiseVars, sess, board_lock, listener, relay>>
    /\ UNCHANGED <<clock, componentVars>>

\* send_move_to_lichess takes turn_lock and calls make_move: the server
\* accepts the move, or the move is rejected or not transmitted and the
\* lock is released
PlayMakeMove ==
    /\ frame.pc = "play_make_move"
    /\ board_lock = "free"
    /\ \E uci_move \in {uci(frame.detected_move)} :
         \/ /\ ServerAccepts(relay, uci_move)
            /\ relay' = RelayAfter(relay, uci_move)
            /\ frame' = [frame EXCEPT !.pc = "play_sent"]
            /\ ss_obs' = [ss_obs EXCEPT !.send = "accepted"]
            /\ board_lock' = "frame"
         \/ /\ frame' = [frame EXCEPT !.pc = "play_pop"]
            /\ ss_obs' = [ss_obs EXCEPT !.send = "rejected"]
            /\ UNCHANGED <<relay, board_lock>>
    /\ UNCHANGED <<gameVars, noiseVars, sess, listener>>
    /\ UNCHANGED <<clock, componentVars>>

\* make_move returned True: the move is recorded, the lock released, and
\* the loop notes the time of the move
PlayMoveAccepted ==
    /\ frame.pc = "play_sent"
    /\ sess' = [sess EXCEPT
                  !.last_lichess_moves = AppendMove(@, uci(frame.detected_move)),
                  !.waiting_for_opponent = TRUE,
                  !.last_move_time = 1]
    /\ board_lock' = "free"
    /\ frame' = [frame EXCEPT !.pc = "play_finish"]
    /\ UNCHANGED <<gameVars, noiseVars, listener, relay, ss_obs>>
    /\ UNCHANGED <<clock, componentVars>>

\* game.game.board.pop(), which raises IndexError on an empty move stack
PlayPop ==
    /\ frame.pc = "play_pop"
    /\ IF board.move_stack = <<>>
       THEN /\ frame' = [frame EXCEPT !.pc = "crashed"]
            /\ UNCHANGED board
       ELSE /\ board' = pop(board)
            /\ frame' = [frame EXCEPT !.pc = "play_finish"]
    /\ UNCHANGED <<gs_call, gs_result, noiseVars, sess, board_lock, listener, relay, ss_obs>>
    /\ UNCHANGED <<clock, componentVars>>

\* update_references, noise.reset(), stable_count = 0: the frame ends
PlayFinish ==
    /\ frame.pc = "play_finish"
    /\ noise' = NoiseHandlerInit
    /\ sess' = [sess EXCEPT !.stable_count = 0]
    /\ frame' = FrameIdle
    /\ UNCHANGED <<gameVars, nh_call, nh_hist, board_lock, listener, relay, ss_obs>>
    /\ UNCHANGED <<clock, componentVars>>

NextPlay ==
    \/ PlayStart
    \/ OpponentMoves
    \/ PlayStreamThread
    \/ PlaySyncAcquire
    \/ PlaySyncReplay
    \/ PlaySyncFinish
    \/ PlayFrame
    \/ PlayOccupancy
    \/ PlayInfer
    \/ PlayPush
    \/ PlaySend
    \/ PlayMakeMove
    \/ PlayMoveAccepted
    \/ PlayPop
    \/ PlayFinish

SpecPlay == Init /\ [][NextPlay]_vars

(***************************************************************************)
(* The machine of GameSession on its own (on_move_detected returns True):  *)
(* one thread, one call of on_frame per step, each frame reading the       *)
(* clock.  Both sides' moves are made on the physical board.               *)
(***************************************************************************)
\* what detect_all_pieces gives for a frame of the local game: as in
\* FrameInputs, or the pieces after the first move of the game together
\* with the two squares of that move differing from the reference images
LocalInputs ==
    FrameInputs
        \cup {[vision_occupied |-> get_board_occupancy(BoardAfter(1)),
                visual_changes |-> {<<4, 1>>, <<4, 3>>}]}

\* on_frame: noise handler, radar, _process_stable_move; dt is the time
\* that has passed since the previous frame
LocalFrame ==
    /\ frame.pc = "idle"
    /\ sess.stable_count < MaxStableFrames
    /\ noise.stable_count < MaxStableCount
    /\ \E dt \in 0..1, detected \in LocalInputs :
         /\ clock + dt <= MaxClock
         /\ \E expected_occupied \in {get_board_occupancy(board)} :
              LET current_time == clock + dt
                  vision_occupied == detected.vision_occupied
                  r == noise_process(noise, detected.visual_changes)
                  shown == [update_radar_ui(sess, board, vision_occupied) EXCEPT
                              !.status = IF r.result.state = "NOISE_ACTIVE"
                                         THEN "WAITING" ELSE "PROCESSING"]
                  diff_missing == expected_occupied \ vision_occupied
                  diff_extra == vision_occupied \ expected_occupied
                  total_diff == Cardinality(diff_missing) + Cardinality(diff_extra)
                  counted == StabilityAfter(shown, total_diff, vision_occupied)
                  ok == cooldown_ok_at(current_time, sess.last_move_time)
                  ready == /\ counted.stable_count >= STABILITY_REQUIRED
                           /\ ok
                           /\ r.result.state # "NOISE_ACTIVE"
              IN  \E detected_move \in
                      {IF ready
                       THEN infer_move(board, diff_missing, diff_extra, vision_occupied)
                       ELSE None} :
                    LET commit == IsMove(detected_move) /\ is_legal(board, detected_move)
                    IN  /\ board' = IF commit THEN push(board, detected_move) ELSE board
                        /\ sess' = IF commit
                                   THEN after_commit(counted, current_time, vision_occupied)
                                   ELSE counted
                        /\ noise' = IF commit THEN NoiseHandlerInit ELSE r.handler
                        /\ frame' = [FrameIdle EXCEPT
                                       !.vision_occupied = vision_occupied,
                                       !.noise_state = r.result.state,
                                       !.noise_stable = r.result.stable,
                                       !.expected_occupied = expected_occupied,
                                       !.detected_move = detected_move,
                                       !.cooldown_ok = ok,
                                       !.current_time = current_time,
                                       !.prev_move_time = sess.last_move_time,
                                       !.committed = commit]
                        /\ clock' = current_time
    /\ UNCHANGED <<recordVars, board_lock, listener, relay, ss_obs, componentVars>>

NextLocal ==
    \/ LocalFrame

SpecLocal == Init /\ [][NextLocal]_vars

(***************************************************************************)
(* The ChangeDetector machine: one call of a method per step.              *)
(***************************************************************************)
otherVars == <<gameVars, noiseVars, sessionVars>>

\* the dicts of square images a caller may pass
SquareDicts == UNION {[P -> Intensities] : P \in SUBSET Positions}

\* the arguments of a detection call: a dict, or None
DetectionInputs ==
    {[none |-> FALSE, squares_dict |-> sd] : sd \in SquareDicts}
        \cup {[none |-> TRUE, squares_dict |-> <<>>]}

Calibrate ==
    /\ cd_call.n < MaxDetectorCalls
    /\ \E squares_dict \in SquareDicts :
         /\ detector' = calibrate(detector, squares_dict)
         /\ cd_call' = DetectorCall(cd_call.n + 1, "calibrate", detector, {}, FALSE)
    /\ UNCHANGED <<otherVars, moveVars, stableVars, scanVars>>

DetectChanges ==
    /\ cd_call.n < MaxDetectorCalls
    /\ \E inp \in DetectionInputs :
         LET r == detect_changes(detector, inp)
         IN  /\ detector' = r.detector
             /\ cd_call' = DetectorCall(cd_call.n + 1, "detect_changes", detector,
                                       r.result, r.raised)
    /\ UNCHANGED <<otherVars, moveVars, stableVars, scanVars>>

DetectChangesDetailed ==
    /\ cd_call.n < MaxDetectorCalls
    /\ \E inp \in DetectionInputs :
         LET r == detect_changes_detailed(detector, inp)
         IN  /\ detector' = r.detector
             /\ cd_call' = DetectorCall(cd_call.n + 1, "detect_changes_detailed", detector,
                                       r.result, r.raised)
    /\ UNCHANGED <<otherVars, moveVars, stableVars, scanVars>>

SetFocusSquares ==
    /\ cd_call.n < MaxDetectorCalls
    /\ \E squares_set \in SUBSET Positions :
         /\ detector' = set_focus_squares(detector, squares_set)
         /\ cd_call' = DetectorCall(cd_call.n + 1, "set_focus_squares", detector, {}, FALSE)
    /\ UNCHANGED <<otherVars, moveVars, stableVars, scanVars>>

ClearFocus ==
    /\ cd_call.n < MaxDetectorCalls
    /\ detector' = clear_focus(detector)
    /\ cd_call' = DetectorCall(cd_call.n + 1, "clear_focus", detector, {}, FALSE)
    /\ UNCHANGED <<otherVars, moveVars, stableVars, scanVars>>

UpdateReference ==
    /\ cd_call.n < MaxDetectorCalls
    /\ \E pos \in Positions, img \in Intensities :
         /\ detector' = update_reference(detector, pos, img)
         /\ cd_call' = DetectorCall(cd_call.n + 1, "update_reference", detector, {}, FALSE)
    /\ UNCHANGED <<otherVars, moveVars, stableVars, scanVars>>

NextDetector ==
    \/ Calibrate
    \/ DetectChanges
    \/ DetectChangesDetailed
    \/ SetFocusSquares
    \/ ClearFocus
    \/ UpdateReference

SpecDetector == Init /\ [][NextDetector]_vars

(***************************************************************************)
(* detect_move: one call, on the FEN texts generate_fen gives for two       *)
(* placements, or on None or an empty text.                                *)
(***************************************************************************)
FenInputs ==
    {[cells |-> cells, fen |-> generate_fen(MatrixWith(cells), "w")] : cells \in CellMaps}
        \cup {[cells |-> StartCells, fen |-> NONE], [cells |-> StartCells, fen |-> <<>>]}

DetectMove ==
    /\ ~md_call.called
    /\ \E prev \in FenInputs, curr \in FenInputs :
         md_call' = [called |-> TRUE, prev_cells |-> prev.cells, curr_cells |-> curr.cells,
                     prev_fen |-> prev.fen, curr_fen |-> curr.fen,
                     result |-> detect_move(prev.fen, curr.fen)]
    /\ UNCHANGED <<otherVars, detectorVars, stableVars, scanVars>>

NextMoves ==
    \/ DetectMove

SpecMoves == Init /\ [][NextMoves]_vars

(***************************************************************************)
(* The StableMoveDetector machine: a detector is built, frames are passed  *)
(* to process.                                                             *)
(***************************************************************************)
NewStableMoveDetector ==
    /\ \E stability_threshold \in Thresholds :
         /\ smd' = StableMoveDetectorInit(stability_threshold)
         /\ smd_call' = StableCall("init", StableMoveDetectorInit(stability_threshold),
                                   NONE, NONE)
    /\ smd_hist' = NoRuns
    /\ UNCHANGED <<otherVars, detectorVars, moveVars, scanVars>>

StableProcess ==
    /\ \E current_fen \in StableFens \cup {NONE} :
         LET r == smd_process(smd, current_fen)
         IN  /\ smd' = r.detector
             /\ smd_call' = StableCall("process", smd, current_fen, r.move)
             /\ smd_hist' = RunsAfter(smd_hist, current_fen)
    /\ UNCHANGED <<otherVars, detectorVars, moveVars, scanVars>>

NextStable ==
    \/ NewStableMoveDetector
    \/ StableProcess

SpecStable == Init /\ [][NextStable]_vars

(***************************************************************************)
(* Claims about GameState.process_occupancy_change (checked under Spec).   *)
(***************************************************************************)
Called == gs_call.op = "process"

\* the status of a move's kind
StatusOfKind(bd, m) ==
    IF IsCastlingMove(bd.pieces, m) THEN "castling_confirmed"
    ELSE IF is_en_passant(bd, m) THEN "en_passant_confirmed"
    ELSE IF is_capture(bd, m) THEN "capture_confirmed"
    ELSE "move_confirmed"

\* the call returned exactly m, committed exactly m and gave m's status
ResolvedAs(m) ==
    /\ gs_result.move = m
    /\ board = push(gs_call.before, m)
    /\ gs_result.status = StatusOfKind(gs_call.before, m)

\* m is not an under-promotion and, when m is a plain capture, it is the
\* only legal capture from its origin (counting each promotion piece as a
\* move of its own) that lands on a square occupied in m's snapshot
Resolvable(bd, m) ==
    /\ m.promotion \in {0, QUEEN}
    /\ (is_capture(bd, m) /\ ~is_en_passant(bd, m)) =>
           {c \in legal_moves(bd) :
               /\ c.from_square = m.from_square
               /\ is_capture(bd, c)
               /\ SquareTuple(c.to_square) \in PhysicalSnapshot(bd, m)} = {m}

\* C1 as stated: for every legal position and every legal move m, the call
\* on the snapshot that results from playing m returns exactly m, commits
\* exactly m and returns the status of m's kind.
C1_EveryLegalMoveResolved ==
    (Called /\ IsMove(gs_call.played)) => ResolvedAs(gs_call.played)

\* C1 amended: the same, for every legal move m that is not an
\* under-promotion and, when it is a plain capture, is the only legal
\* capture from its origin whose destination is occupied in the snapshot.
C1_UnambiguousMoveResolved ==
    (Called /\ IsMove(gs_call.played) /\ Resolvable(gs_call.before, gs_call.played))
        => ResolvedAs(gs_call.played)

\* C1 witness: a castling move played physically was resolved as itself
C1_Witness ==
    /\ Called
    /\ IsMove(gs_call.played)
    /\ IsCastlingMove(gs_call.before.pieces, gs_call.played)
    /\ gs_result.move = gs_call.played
    /\ gs_result.status = "castling_confirmed"

\* (number vanished, number appeared) of the last call's snapshot
DiffPattern ==
    LET occ == get_board_occupancy(gs_call.before)
    IN  <<Cardinality(occ \ gs_call.vision), Cardinality(gs_call.vision \ occ)>>

ResolvablePatterns == {<<1, 1>>, <<2, 2>>, <<2, 1>>, <<1, 0>>}

\* C2: whenever the call returns no move (status illegal_move,
\* ambiguous_capture or no_valid_change), and in particular for every
\* snapshot whose pattern is none of (1,1), (2,2), (2,1), (1,0), the board
\* (placement, side to move, move history) is as before the call.
C2_FailedCallLeavesBoard ==
    Called =>
        /\ ~IsMove(gs_result.move) =>
              /\ board = gs_call.before
              /\ gs_result.move = None
              /\ gs_result.status \in {"illegal_move", "ambiguous_capture", "no_valid_change"}
        /\ DiffPattern \notin ResolvablePatterns =>
              /\ board = gs_call.before
              /\ gs_result.move = None
              /\ gs_result.status = "no_valid_change"

\* C2 witness: a snapshot of another pattern was given and refused
C2_Witness ==
    /\ Called
    /\ DiffPattern \notin ResolvablePatterns
    /\ DiffPattern # <<0, 0>>
    /\ gs_result.status = "no_valid_change"

\* C3 as stated: whenever the call commits a move for a snapshot S,
\* get_board_occupancy() right after the call equals S.
C3_RoundTrip ==
    (Called /\ IsMove(gs_result.move)) => get_board_occupancy(board) = gs_call.vision


(***************************************************************************)
(* Claims about NoiseHandler (checked under SpecNoise).                    *)
(***************************************************************************)
NoiseCalled == nh_call.op = "process"

\* C4: starting from IDLE, when the same non-empty changed set of at most
\* NOISE_THRESHOLD squares is passed in STABILITY_FRAMES consecutive calls,
\* the returned stable flag is False on each of the first
\* STABILITY_FRAMES - 1 calls and True on the STABILITY_FRAMES-th.
C4_StableOnLastFrame ==
    (NoiseCalled /\ nh_hist.run_len > 0 /\ nh_hist.run_len <= STABILITY_FRAMES) =>
        /\ nh_call.changed = nh_hist.run_set
        /\ nh_call.result.stable = (nh_hist.run_len = STABILITY_FRAMES)

\* C4 witness: the STABILITY_FRAMES-th call of such a run returned stable
C4_Witness ==
    /\ NoiseCalled
    /\ nh_hist.run_len = STABILITY_FRAMES
    /\ nh_call.result.stable

\* C5: in IDLE, process with an empty changed set returns IDLE and changes
\* nothing: state, pending set, stability counter and cooldown counter are
\* as before.
C5_EmptyInIdleChangesNothing ==
    (NoiseCalled /\ nh_call.before.state = "IDLE" /\ nh_call.changed = {}) =>
        /\ nh_call.result.state = "IDLE"
        /\ noise = nh_call.before

\* C5 witness: an empty call in an IDLE reached again after a noise episode
C5_Witness ==
    /\ NoiseCalled
    /\ nh_call.before.state = "IDLE"
    /\ nh_call.changed = {}
    /\ nh_call.before.last_lifted_square # NoSquare
    /\ noise.state = "IDLE"

\* C6: in every state, a call with more than NOISE_THRESHOLD changed squares
\* leaves the handler in NOISE_ACTIVE, is_blocked() true, cooldown counter 0;
\* from MOVE_PENDING the candidate and its stability count are discarded.
C6_ManyChangesMeanNoise ==
    (NoiseCalled /\ Cardinality(nh_call.changed) > NOISE_THRESHOLD) =>
        /\ nh_call.result.state = "NOISE_ACTIVE"
        /\ noise.state = "NOISE_ACTIVE"
        /\ is_blocked(noise)
        /\ noise.cooldown_count = 0
        /\ nh_call.before.state = "MOVE_PENDING" =>
              /\ noise.pending_squares = {}
              /\ noise.stable_count = 0

\* C6 witness: a pending candidate that had been counted was interrupted
C6_Witness ==
    /\ NoiseCalled
    /\ Cardinality(nh_call.changed) > NOISE_THRESHOLD
    /\ nh_call.before.state = "MOVE_PENDING"
    /\ nh_call.before.stable_count > 1
    /\ noise.state = "NOISE_ACTIVE"

\* C7: right after a call with more than NOISE_THRESHOLD changed squares,
\* COOLDOWN_FRAMES consecutive empty calls bring the handler back to IDLE
\* (is_blocked() false) on the last of them, and it is still NOISE_ACTIVE
\* after any smaller number of them.
C7_CooldownClearsNoise ==
    nh_hist.quiet_armed =>
        IF nh_hist.quiet_len < COOLDOWN_FRAMES
        THEN noise.state = "NOISE_ACTIVE" /\ is_blocked(noise)
        ELSE /\ noise.state = "IDLE"
             /\ ~is_blocked(noise)
             /\ nh_call.result.state = "IDLE"

\* C7 witness: the COOLDOWN_FRAMES-th empty call after a noisy one
C7_Witness ==
    /\ nh_hist.quiet_armed
    /\ nh_hist.quiet_len = COOLDOWN_FRAMES
    /\ nh_call.before.state = "NOISE_ACTIVE"
    /\ noise.state = "IDLE"

\* C18: whenever process returns a result with stable=True, the handler
\* has been reset by the time the call returns: its state is IDLE, the
\* pending set is empty and the stability counter is 0.
C18_StableResultResetsHandler ==
    (NoiseCalled /\ nh_call.result.stable) =>
        /\ noise.state = "IDLE"
        /\ noise.pending_squares = {}
        /\ noise.stable_count = 0

\* C19: in MOVE_PENDING, every call whose changed set has at most
\* NOISE_THRESHOLD squares and is not equal to the pending candidate
\* replaces the candidate with that set and sets the stability counter to
\* 1; the counter is incremented only by a call whose changed set is
\* identical to the pending candidate.
C19_OnlyTheCandidateCounts ==
    (/\ NoiseCalled
     /\ nh_call.before.state = "MOVE_PENDING"
     /\ Cardinality(nh_call.changed) <= NOISE_THRESHOLD) =>
        /\ nh_call.changed # nh_call.before.pending_squares =>
              /\ noise.pending_squares = nh_call.changed
              /\ noise.stable_count = 1
        /\ noise.stable_count = nh_call.before.stable_count + 1 =>
              nh_call.changed = nh_call.before.pending_squares

\* C20: the handler goes from NOISE_ACTIVE to IDLE only at the end of
\* COOLDOWN_FRAMES consecutive zero-change calls: if any of the
\* COOLDOWN_FRAMES most recent calls had a non-empty changed set, process
\* does not take the handler from NOISE_ACTIVE to IDLE.
C20_IdleOnlyAfterQuietCooldown ==
    (/\ NoiseCalled
     /\ nh_call.before.state = "NOISE_ACTIVE"
     /\ noise.state = "IDLE") =>
        nh_hist.empty_len >= COOLDOWN_FRAMES

(***************************************************************************)
(* Claims about the session (checked under SpecSession and SpecPlay).      *)
(***************************************************************************)
\* C8: every access of the frame loop to the canonical board happens while
\* board_lock is held, so the frame loop never observes a board that is
\* partway through the listener's reset-and-replay in _sync_moves.
C8_FrameNeverReadsMidReplay == ~frame.mid_replay_read

\* the vision loop's send is over, the stream thread has taken every event
\* and is out of _sync_moves
BothFinished ==
    /\ frame.pc \notin {"sending", "sent"}
    /\ listener.pc = "idle"
    /\ relay.stream = <<>>

\* C9: when the stream delivers the echo of the move the vision loop has
\* just sent, in every interleaving of _sync_moves with
\* _process_stable_move the move is on the board exactly once, and when
\* both have finished the board's move stack is the move sequence recorded
\* in last_lichess_moves.
C9_EchoedMoveOnBoardOnce ==
    (ss_obs.send = "accepted" /\ BothFinished) =>
        /\ MoveStackWords(board) = split(sess.last_lichess_moves)
        /\ Cardinality({i \in DOMAIN board.move_stack :
                          board.move_stack[i] = ss_obs.sent}) = 1

\* C9 witness: the echo reached _sync_moves while the vision loop held the
\* lock for the send; the listener waited and returned at its second
\* comparison, and the move is the only one on the board
C9_Witness ==
    /\ ss_obs.send = "accepted"
    /\ BothFinished
    /\ ss_obs.sync_exit = "recheck"
    /\ board.move_stack = <<ss_obs.sent>>
    /\ split(sess.last_lichess_moves) = <<uci(ss_obs.sent)>>

\* C10: if make_move returns False for a detected move, then after the
\* frame has been processed the board is the position from before the move
\* was detected and last_lichess_moves is unchanged; when the listener has
\* synchronised in the meantime, the board is the replay of the list the
\* listener recorded.
C10_RejectedMoveRolledBack ==
    (ss_obs.send = "rejected" /\ frame.pc = "idle" /\ listener.pc = "idle") =>
        \/ /\ board = ss_obs.before
           /\ sess.last_lichess_moves = ss_obs.last_before
        \/ MoveStackWords(board) = split(sess.last_lichess_moves)

\* C11: the session never retries a rejected move: after make_move has
\* returned False for a detected move, a later frame whose observed
\* occupancy is the one that has been stable does not call make_move for
\* that move again.
C11_NoRetryAfterRejection ==
    [][(/\ ss_obs.send = "rejected"
        /\ sess.stable_count >= STABILITY_REQUIRED
        /\ sess.stable_occupancy = frame.vision_occupied
        /\ board = ss_obs.before
        /\ ss_obs'.send = "asked")
          => ss_obs'.sent # ss_obs.sent]_vars

\* the legal captures from the one vanished square of the last call's
\* snapshot whose destination the snapshot shows occupied
CaptureCandidates ==
    LET bd == gs_call.before
        vanished == get_board_occupancy(bd) \ gs_call.vision
    IN  UNION {{m \in legal_moves_from(bd, square(v[1], v[2])) :
                   /\ is_capture(bd, m)
                   /\ SquareTuple(m.to_square) \in gs_call.vision}
               : v \in vanished}

\* C12: for a snapshot with exactly one vanished square and no appeared
\* square, process_occupancy_change commits a move only when exactly one
\* legal capture from the vanished square has its destination occupied in
\* the snapshot (and then commits that capture); when two or more such
\* captures exist it returns ambiguous_capture and commits nothing.
C12_CaptureOnlyWhenUnique ==
    (Called /\ DiffPattern = <<1, 0>>) =>
        /\ board # gs_call.before =>
              /\ Cardinality(CaptureCandidates) = 1
              /\ gs_result.move \in CaptureCandidates
              /\ board = push(gs_call.before, gs_result.move)
              /\ gs_result.status = "capture_confirmed"
        /\ Cardinality(CaptureCandidates) >= 2 =>
              /\ gs_result.move = None
              /\ gs_result.status = "ambiguous_capture"
              /\ board = gs_call.before

\* C12 witness: the pawn of e4 vanished with two captures open to it
\* (d5 and f5, both still occupied), and the call refused to guess
C12_Witness ==
    /\ Called
    /\ DiffPattern = <<1, 0>>
    /\ Cardinality({m.to_square : m \in CaptureCandidates}) = 2
    /\ gs_result.status = "ambiguous_capture"
    /\ board = gs_call.before

(***************************************************************************)
(* Claims about GameSession on its own (checked under SpecLocal).          *)
(***************************************************************************)
\* C13: two moves committed by _process_stable_move are always more than
\* MOVE_COOLDOWN seconds apart: in a frame whose time is within
\* MOVE_COOLDOWN of the time of the previous commit no move is inferred,
\* sent or committed.
C13_CommitsApart ==
    (/\ frame.prev_move_time # 0
     /\ frame.current_time - frame.prev_move_time <= MOVE_COOLDOWN)
        => /\ ~IsMove(frame.detected_move)
           /\ ~frame.committed
           /\ board.move_stack # <<>>
           /\ sess.last_move_time = frame.prev_move_time

\* C13 witness: after a first commit the next position has been stable for
\* STABILITY_REQUIRED frames, no hand is over the board and the occupancy
\* points to one legal move, yet the frame is within the cooldown and
\* leaves the board alone
C13_Witness ==
    /\ frame.prev_move_time # 0
    /\ frame.current_time - frame.prev_move_time = MOVE_COOLDOWN
    /\ sess.stable_count >= STABILITY_REQUIRED
    /\ frame.noise_state # "NOISE_ACTIVE"
    /\ IsMove(infer_move(board, frame.expected_occupied \ frame.vision_occupied,
                         frame.vision_occupied \ frame.expected_occupied,
                         frame.vision_occupied))
    /\ ~frame.committed
    /\ Len(board.move_stack) = 1

(***************************************************************************)
(* Claims about ChangeDetector (checked under SpecDetector).               *)
(***************************************************************************)
DetectionCalled == cd_call.op \in {"detect_changes", "detect_changes_detailed"}

\* C14: while the detector has not been calibrated, detect_changes and
\* detect_changes_detailed return an empty result for every input (with or
\* without a focus set), raise no error, and leave the per-square
\* background models unchanged.
C14_UncalibratedDetectionIsNoOp ==
    (DetectionCalled /\ ~cd_call.before.is_calibrated) =>
        /\ cd_call.result = {}
        /\ ~cd_call.raised
        /\ detector = cd_call.before

\* C14 witness: a detection call was made with a focus set on a detector
\* that is not calibrated and holds a background model (update_reference
\* does not calibrate)
C14_Witness ==
    /\ DetectionCalled
    /\ ~cd_call.before.is_calibrated
    /\ cd_call.before.focus_squares # {}
    /\ DOMAIN cd_call.before.gaussian_models # {}
    /\ cd_call.result = {}

(***************************************************************************)
(* Claims about StableMoveDetector (checked under SpecStable) and          *)
(* detect_move (checked under SpecMoves).                                  *)
(***************************************************************************)
StableCalled == smd_call.op = "process"

ConfirmedChanged == StableCalled /\ smd.confirmed_fen # smd_call.before.confirmed_fen

C16_StableChangeConfirmedAtOnce ==
    /\ smd.state # "CONFIRMED"
    /\ (/\ StableCalled
        /\ smd_call.before.confirmed_fen # NONE
        /\ smd_call.current_fen # NONE
        /\ smd_call.current_fen # smd_call.before.confirmed_fen
        /\ smd_hist.run_len >= smd.stability_threshold)
          => /\ smd.confirmed_fen = smd_call.current_fen
             /\ smd.candidate_fen = NONE
             /\ smd.candidate_count = 0
             /\ smd.state = "IDLE"

\* what detect_move is to return for the two placements of the last call
ExpectedMove ==
    LET changed == {rc \in ProbeCells : md_call.prev_cells[rc] # md_call.curr_cells[rc]}
        moves == {<<s, d>> \in changed \X changed :
                     /\ md_call.prev_cells[s] # "" /\ md_call.curr_cells[s] = ""
                     /\ md_call.prev_cells[d] = "" /\ md_call.curr_cells[d] # ""
                     /\ md_call.prev_cells[s] = md_call.curr_cells[d]}
    IN  IF md_call.prev_fen \in {NONE, <<>>} \/ md_call.curr_fen \in {NONE, <<>>}
        THEN NONE
        ELSE IF Cardinality(changed) = 2 /\ moves # {}
        THEN LET sd == CHOOSE m \in moves : TRUE
             IN  <<FILE_NAMES[sd[1][2] + 1], RANK_NAMES[8 - sd[1][1]],
                   FILE_NAMES[sd[2][2] + 1], RANK_NAMES[8 - sd[2][1]]>>
        ELSE NONE

\* C17: detect_move returns a move only when exactly two squares differ
\* between the two placements, one going from occupied to empty and the
\* other from empty to occupied with the same piece symbol, and the result
\* is then the origin followed by the destination in algebraic notation;
\* in every other case it returns None.
C17_SimpleMovesOnly ==
    md_call.called => md_call.result = ExpectedMove

\* C17 witness: a pawn left e4 and a pawn of the other colour stands on d5
\* where none stood: two changed squares, different symbols, no move
C17_Witness ==
    /\ md_call.called
    /\ md_call.prev_cells[<<4, 4>>] = "P" /\ md_call.curr_cells[<<4, 4>>] = ""
    /\ md_call.prev_cells[<<3, 3>>] = "" /\ md_call.curr_cells[<<3, 3>>] = "p"
    /\ md_call.prev_cells[<<6, 4>>] = md_call.curr_cells[<<6, 4>>]
    /\ md_call.result = NONE

(***************************************************************************)
(* Claims about the frame of GameSession                                   *)
(***************************************************************************)
\* C21: a frame resolves or commits a move only when NoiseHandler.process
\* returned the stable signal in that frame: whenever the last frame's
\* _infer_move gave a move, or a move was pushed, the noise result of that
\* frame had stable = True.
C21_ResolutionOnlyOnStableSignal ==
    (IsMove(frame.detected_move) \/ frame.committed) => frame.noise_stable

C23_CommitRefreshesAndResets ==
    [][(frame.pc = "idle" /\ frame'.pc = "idle")
          => IF frame'.committed
             THEN /\ sess'.reference_squares = frame'.vision_occupied
                  /\ noise' = NoiseHandlerInit
                  /\ sess'.stable_count = 0
                  /\ sess'.last_move_time = frame'.current_time
             ELSE /\ sess'.reference_squares = sess.reference_squares
                  /\ sess'.last_move_time = sess.last_move_time
                  /\ \E detected \in LocalInputs :
                        /\ detected.vision_occupied = frame'.vision_occupied
                        /\ noise' = noise_process(noise, detected.visual_changes).handler
                  /\ \E total_diff \in
                         {Cardinality(frame'.expected_occupied \ frame'.vision_occupied)
                            + Cardinality(frame'.vision_occupied \ frame'.expected_occupied)} :
                        sess'.stable_count =
                            StabilityAfter(sess, total_diff, frame'.vision_occupied).stable_count]_vars

\* a move has just been committed in a frame showing the board after it,
\* with a later time than the session's start
C23_Witness ==
    /\ frame.committed
    /\ sess.reference_squares = frame.vision_occupied
    /\ sess.reference_squares # get_board_occupancy(StartBoard)
    /\ noise = NoiseHandlerInit
    /\ sess.last_move_time = frame.current_time
    /\ frame.current_time > MOVE_COOLDOWN + 1

(***************************************************************************)
(* Claims about the stream thread                                          *)
(***************************************************************************)
\* C24: once the stop signal is set (on_exit, or a game-ended event),
\* _stream_task eventually terminates, whether or not the relay sends
\* another event.
C24_ListenerStopsAfterSignal ==
    sess.stop_event ~> (listener.pc = "done")

(***************************************************************************)
(* Claims about the smart scan                                             *)
(***************************************************************************)
\* C25: on a frame that is not a full scan, squares_to_check is exactly the
\* occupied squares of the board together with the destination squares of
\* the legal moves, all as (file, rank) keys of the grid splitter
\* (rank 0 is the first rank).
C25_SmartScanCoversOccupiedAndDestinations ==
    (scan.called /\ ~scan.full_scan)
        => scan.squares_to_check
             = get_board_occupancy(board)
                 \cup {SquareTuple(m.to_square) : m \in legal_moves(board)}

(***************************************************************************)
(* Claims about the results and the fields of NoiseHandler                 *)
(***************************************************************************)
\* C26: whenever process returns a MOVE_PENDING result whose 'lifted' value
\* is not None, the pending set is exactly one square and 'lifted' is that
\* square.
C26_LiftedIsThePendingSquare ==
    (/\ NoiseCalled
     /\ nh_call.result.state = "MOVE_PENDING"
     /\ "lifted" \in nh_call.result.keys
     /\ nh_call.result.lifted # NoSquare)
        => /\ noise.pending_squares = {nh_call.result.lifted}
           /\ nh_call.result.squares = {nh_call.result.lifted}

\* C27: after any sequence of process and reset calls, IDLE implies an empty
\* pending set and a stability counter of 0; MOVE_PENDING implies a pending
\* set of 1 to NOISE_THRESHOLD squares and a stability counter of at least
\* 1; and every result with stable = True carries a non-empty set of at most
\* NOISE_THRESHOLD squares.
C27_HandlerFieldsAgreeWithState ==
    /\ noise.state = "IDLE"
          => /\ noise.pending_squares = {}
             /\ noise.stable_count = 0
    /\ noise.state = "MOVE_PENDING"
          => /\ Cardinality(noise.pending_squares) \in 1..NOISE_THRESHOLD
             /\ noise.stable_count >= 1
    /\ (NoiseCalled /\ nh_call.result.stable)
          => /\ nh_call.result.squares # {}
             /\ Cardinality(nh_call.result.squares) <= NOISE_THRESHOLD

\* a stable result returned in MOVE_PENDING by a handler that came there
\* through NOISE_ACTIVE
C27_Witness ==
    /\ NoiseCalled
    /\ nh_call.result.stable
    /\ noise.state = "MOVE_PENDING"
    /\ noise.cooldown_count >= COOLDOWN_FRAMES
    /\ Cardinality(noise.pending_squares) = NOISE_THRESHOLD

(***************************************************************************)
(* Claims about the order of enumeration in GameState                      *)
(***************************************************************************)
\* C28: the move process_occupancy_change commits and the status it returns
\* depend only on the position and the snapshot as sets: every order in
\* which the vanished and the appeared squares can be enumerated gives the
\* move and the status the call gave.
C28_OutcomeIndependentOfOrder ==
    Called =>
        \A out \in process_occupancy_change(gs_call.before,
                                             legal_moves(gs_call.before),
                                             gs_call.vision) :
            /\ out.move = gs_result.move
            /\ out.status = gs_result.status

\* C29: once the listener has dealt with the gameFull event, and after every
\* later sync, waiting_for_opponent is true exactly when, by the number of
\* moves in last_lichess_moves and the account's colour, it is not the
\* account's turn.
C29_WaitingMatchesTurn ==
    (listener.pc = "idle" /\ relay.my_color # "")
        => sess.waiting_for_opponent
             = ~((Len(split(sess.last_lichess_moves)) % 2 = 0)
                    = (relay.my_color = "white"))

(***************************************************************************)
(* Claims about the turn flag of LichessSession                            *)
(***************************************************************************)
\* C30: a detected move is sent to the relay, and pushed on the board, only
\* while waiting_for_opponent is false; an accepted move sets
\* waiting_for_opponent, and it becomes false again only when _sync_moves
\* has recorded a different move list by which it is the account's turn.
C30_NoMoveWhileWaiting ==
    [][/\ (frame'.pc = "sending" /\ frame.pc # "sending") => ~sess.waiting_for_opponent
       /\ (frame.pc = "sending" /\ relay' # relay) => ~sess.waiting_for_opponent
       /\ (frame.pc = "sent" /\ board' # board) => ~sess.waiting_for_opponent
       /\ (frame.pc = "sent" /\ frame'.pc = "idle") => sess'.waiting_for_opponent
       /\ (sess.waiting_for_opponent /\ ~sess'.waiting_for_opponent)
             => /\ listener.pc = "replay"
                /\ listener'.pc = "idle"
                /\ sess'.last_lichess_moves # sess.last_lichess_moves
                /\ is_my_turn(relay.my_color, sess'.last_lichess_moves)]_vars

\* after an accepted move a further move was detected while
\* waiting_for_opponent was true, and dropped
C30_Witness ==
    /\ frame.pc = "idle"
    /\ IsMove(frame.detected_move)
    /\ sess.waiting_for_opponent
    /\ ss_obs.send = "accepted"
    /\ board_lock = "free"

=============================================================================
